---- MODULE Spec2Model ----
(***************************************************************************)
(* The wallet ledger: the users and transactions tables of sql/init.sql,   *)
(* the stored procedure process_transaction, and the service operations of *)
(* WalletService (creditUser, debitUser, processWager, processPayout, the  *)
(* reads getUserBalance and getTransactionByTransactionId), of UserService *)
(* (authenticateUser) and UserRepository.updateUserStatus, run by          *)
(* concurrent callers against one                                          *)
(* PostgreSQL database in READ COMMITTED autocommit mode (Database.query   *)
(* sends each statement through pool.query, so each statement, and hence   *)
(* each process_transaction call, is one database transaction).            *)
(*                                                                         *)
(* Money: stored balances and stored amounts are DECIMAL(15,2), modelled   *)
(* as an integer number of cents.  A request amount is a JavaScript number *)
(* modelled as an integer number of grid units of 10^-GridDigits, so that  *)
(* amounts with more than two fractional digits exist and the rounding of  *)
(* the database's assignment casts is something that happens.              *)
(***************************************************************************)
EXTENDS Integers, Sequences, FiniteSets, TLC

\* ------------------------------------------------------------- bounds
\* number of service calls issued in one behaviour (one slot per call)
NumCalls == 3
\* balance, in cents, that the seed script inserts for the seeded account
SeedBalance == 3
\* a request amount is a multiple of 10^-GridDigits
GridDigits == 7
\* amounts near the largest DECIMAL(15, 2) value are written as two limbs, hi
\* and lo, of cents: hi * 10 ^ LimbDigits + lo
LimbDigits == 8
\* the longest SQL script, in lines, that setupDatabase is given
MaxLines == 4

\* scale of DECIMAL(15, 2)
DecimalScale == 2
\* DECIMAL(15, 2): 15 digits in all
DecimalPrecision == 15

UnitsPerCent == 10 ^ (GridDigits - DecimalScale)
Cent == UnitsPerCent

Procs == 1 .. NumCalls
NoProc == 0

\* accounts that exist: u1 was registered (balance 0.00), u2 was seeded
UserIds == {"u1", "u2"}
\* an id no row of users has
MissingId == "u0"
AllIds == UserIds \cup {MissingId}

Statuses == {"active", "suspended", "inactive"}

\* keys a client may send with creditUser / debitUser
ClientKeys == {[src |-> "client", n |-> 1], [src |-> "client", n |-> 2]}
NoKey == [src |-> "none", n |-> 0]
\* a third key, for behaviours of credit and debit calls only
MoreKeys == ClientKeys \cup {[src |-> "client", n |-> 3]}

\* request amounts, in grid units: 0.005 and 0.01
Amounts == {Cent \div 2, Cent}

TransactionType == {"credit", "debit", "wager", "payout", "bonus", "refund"}
Ops == {"credit", "debit", "wager", "payout"}

VARIABLES
    balance,    \* users.balance, cents, per existing user
    status,     \* users.status
    ledger,     \* the rows of transactions, in commit order
    rowLock,    \* holder of the FOR UPDATE lock of each users row, or NoProc
    pc,         \* where each call is
    req,        \* the arguments of each call
    txn,        \* the locals of each call: process_transaction's, or the row
                \* that verifyPassword has read
    result,     \* what each call returned or threw
    role,       \* users.role
    last_login, \* users.last_login: "null" or "set"
    http        \* of each call that is an HTTP request: what it carried and
                \* the response sent

vars == <<balance, status, ledger, rowLock, pc, req, txn, result, role, last_login, http>>

NoEntry == [id |-> 0, userId |-> MissingId, transactionId |-> NoKey, type |-> "none",
            amount |-> 0, balanceBefore |-> 0, balanceAfter |-> 0]
NoReq == [op |-> "none", userId |-> MissingId, transactionId |-> NoKey, amount |-> 0]
NoTxn == [current_balance |-> 0, new_balance |-> 0, user_status |-> ""]
\* a call that is no HTTP request
\* the query string of a listing request that sends none
NoQuery == [limit |-> 0, sortBy |-> "", sortOrder |-> "", userId |-> ""]
NoHttp == [apiKey |-> FALSE, token |-> [kind |-> "none", id |-> "u0", role |-> ""],
           status |-> 0, code |-> "",
           query |-> NoQuery, page |-> 0, pages |-> 0, total |-> 0, firstTotal |-> 0,
           data |-> <<>>]
NoStats == [totalTransactions |-> 0, totalCredits |-> 0, totalDebits |-> 0,
            totalWagers |-> 0, totalPayouts |-> 0]
NoResult == [kind |-> "none", entry |-> NoEntry, error |-> "", value |-> 0,
             stats |-> NoStats]

Created(e) == [NoResult EXCEPT !.kind = "created", !.entry = e]
Replayed(e) == [NoResult EXCEPT !.kind = "replayed", !.entry = e]
Threw(msg) == [NoResult EXCEPT !.kind = "error", !.error = msg]
\* a call that returns something else: a row of users, a balance, null
Returned(kind, v) == [NoResult EXCEPT !.kind = kind, !.value = v]

\* ------------------------------------------------------------ numerics
\* a cast to DECIMAL(15,2): PostgreSQL rounds numeric half away from zero
RoundCents(x) ==
    IF x >= 0 THEN (x + UnitsPerCent \div 2) \div UnitsPerCent
    ELSE -((-x + UnitsPerCent \div 2) \div UnitsPerCent)

RECURSIVE TrailingZeros(_)
TrailingZeros(a) == IF a > 0 /\ a % 10 = 0 THEN 1 + TrailingZeros(a \div 10) ELSE 0

RECURSIVE Digits(_)
Digits(a) == IF a < 10 THEN 1 ELSE 1 + Digits(a \div 10)

\* (amount.toString().split('.')[1] || '').length for amount > 0: Number.toString
\* prints a value below 1e-6 as d.ddde-N (as de-N when it has one significant
\* digit: no '.', length 0; else the digits after the '.' and then "e-N") and
\* any other value as plain decimal digits
DecimalPlaces(a) ==
    IF GridDigits > 6 /\ a < 10 ^ (GridDigits - 6)
    THEN IF Digits(a) - TrailingZeros(a) = 1 THEN 0
         ELSE (Digits(a) - TrailingZeros(a) - 1) + 2 + Digits(GridDigits - Digits(a) + 1)
    ELSE IF TrailingZeros(a) >= GridDigits THEN 0 ELSE GridDigits - TrailingZeros(a)

validateAmount(a) ==
    IF a <= 0 THEN "Amount must be positive"
    ELSE IF DecimalPlaces(a) > 2 THEN "Amount must have at most 2 decimal places"
    ELSE "ok"

\* String.prototype.includes
RECURSIVE IncludesFrom(_, _, _)
IncludesFrom(s, sub, i) ==
    IF i + Len(sub) - 1 > Len(s) THEN FALSE
    ELSE IF SubSeq(s, i, i + Len(sub) - 1) = sub THEN TRUE
    ELSE IncludesFrom(s, sub, i + 1)

Includes(s, sub) == IncludesFrom(s, sub, 1)

\* Amounts of cents in two limbs, for the values that TLC's integers cannot hold
Limb == 10 ^ LimbDigits
Numeric(hi, lo) == [hi |-> hi, lo |-> lo]
NumericZero == Numeric(0, 0)
\* 9999999999999.99, the largest DECIMAL(15, 2) value
NumericMax == Numeric(10 ^ (DecimalPrecision - LimbDigits) - 1, Limb - 1)
NumericAdd(a, b) ==
    Numeric(a.hi + b.hi + (a.lo + b.lo) \div Limb, (a.lo + b.lo) % Limb)
NumericLess(a, b) == a.hi < b.hi \/ (a.hi = b.hi /\ a.lo < b.lo)
\* a - b for b <= a
NumericSub(a, b) ==
    IF a.lo >= b.lo THEN Numeric(a.hi - b.hi, a.lo - b.lo)
    ELSE Numeric(a.hi - b.hi - 1, a.lo + Limb - b.lo)

\* a mutant of NumericOverflows: every value fits
NumericOverflowsNever(a) == FALSE

\* the value has more than DecimalPrecision digits: assigning it to a
\* DECIMAL(15, 2) variable or column raises numeric_value_out_of_range
NumericOverflows(a) == a.hi >= 10 ^ (DecimalPrecision - LimbDigits)

\* ------------------------------------------------------- the database
Rows == {ledger[i] : i \in 1 .. Len(ledger)}

\* a mutant of getTransactionByTransactionId: the lookup finds nothing
getTransactionNotFound(k) == NoEntry

\* SELECT ... FROM transactions WHERE transaction_id = $1 (committed rows only)
getTransactionByTransactionId(k) ==
    IF \E e \in Rows : e.transactionId = k
    THEN CHOOSE e \in Rows : e.transactionId = k
    ELSE NoEntry

\* the branches of CASE p_type
CreditClass(t) == t \in {"credit", "payout", "bonus", "refund"}
DebitClass(t) == t \in {"debit", "wager"}

\* new_balance := current_balance +/- p_amount.  p_amount arrives unrounded (a
\* function parameter's type modifier is discarded), new_balance is a
\* DECIMAL(15, 2) variable, so the assignment rounds the result to cents
NewBalance(type, cur, p_amount) ==
    IF CreditClass(type) THEN RoundCents(cur * UnitsPerCent + p_amount)
    ELSE RoundCents(cur * UnitsPerCent - p_amount)

\* the CHECK constraints of transactions, on the row as stored
amount_check(amt) == amt > 0
balance_before_check(b) == b >= 0
balance_after_check(b) == b >= 0
\* a mutant of transaction_balance_consistency: the constraint is missing
transaction_balance_consistency_missing(type, amt, before, after) == TRUE

transaction_balance_consistency(type, amt, before, after) ==
    \/ type \in {"credit", "payout", "bonus", "refund"} /\ after = before + amt
    \/ type \in {"debit", "wager"} /\ after = before - amt

\* the CHECK constraint of users
users_balance_non_negative(b) == b >= 0

DbNone == [code |-> "", message |-> ""]
DbUserNotFound == [code |-> "P0001", message |-> "User not found: <id>"]
DbInsufficient == [code |-> "P0001", message |-> "Insufficient funds. Current balance"]
DbInvalidType == [code |-> "P0001", message |-> "Invalid transaction type"]
DbCheck == [code |-> "23514", message |-> "violates check constraint"]
DbUnique == [code |-> "23505", message |-> "duplicate key value violates unique constraint"]
\* a value that does not fit the DECIMAL(15, 2) it is assigned to
DbOverflow == [code |-> "22003", message |-> "numeric field overflow"]

\* a mutant of Raised: no exception is ever raised
RaisedNever(type, cur, p_amount) == DbNone

\* a mutant of Raised: the funds test is new_balance <= 0
RaisedAtZero(type, cur, p_amount) ==
    IF DebitClass(type) /\ NewBalance(type, cur, p_amount) <= 0 THEN DbInsufficient
    ELSE DbNone

\* The exception that the body of process_transaction raises once it holds the
\* row lock and has read cur, the unique index apart: the RAISE of the CASE,
\* then the CHECK constraints of the INSERT (the stored amount is p_amount cast
\* to DECIMAL(15, 2)), then the CHECK constraint of the UPDATE.
Raised(type, cur, p_amount) ==
    LET new == NewBalance(type, cur, p_amount)
        amt == RoundCents(p_amount)
    IN  IF ~(CreditClass(type) \/ DebitClass(type)) THEN DbInvalidType
        ELSE IF DebitClass(type) /\ new < 0 THEN DbInsufficient
        ELSE IF ~(/\ amount_check(amt)
                  /\ balance_before_check(cur)
                  /\ balance_after_check(new)
                  /\ transaction_balance_consistency(type, amt, cur, new))
             THEN DbCheck
        ELSE IF ~users_balance_non_negative(new) THEN DbCheck
        ELSE DbNone

\* a mutant of RowLocked: the SELECT has no FOR UPDATE and never waits
RowLockedNever(u) == FALSE

\* SELECT ... FOR UPDATE waits while another transaction holds the row's lock
RowLocked(u) == rowLock[u] # NoProc

\* a mutant of UniqueViolation: the column has no UNIQUE constraint
UniqueViolationNever(k) == FALSE

\* transaction_id VARCHAR(100) UNIQUE, against the committed rows
UniqueViolation(k) == \E e \in Rows : e.transactionId = k

\* a mutant of InsertWaits: the commit of the transaction that holds the key
\* does not wake the INSERT
InsertWaitsAfterCommit(p) ==
    \/ \E q \in Procs \ {p} : pc[q] = "inserted" /\ req[q].transactionId = req[p].transactionId
    \/ UniqueViolation(req[p].transactionId)

\* another transaction has inserted the key and not yet committed: the INSERT waits
InsertWaits(p) ==
    \E q \in Procs \ {p} : pc[q] = "inserted" /\ req[q].transactionId = req[p].transactionId

\* a mutant of InsertTransaction: the statement replaces the rows of the table
InsertTransactionReplacing(rows, transaction_record) == <<transaction_record>>

\* INSERT INTO transactions (...) VALUES (...) RETURNING *
InsertTransaction(rows, transaction_record) == Append(rows, transaction_record)

\* a mutant of UpdateUsersBalance: the UPDATE has no WHERE clause
UpdateUsersBalanceEveryRow(bal, u, new) == [v \in DOMAIN bal |-> new]

\* a mutant of UpdateUsersBalance: the UPDATE matches no row
UpdateUsersBalanceSkipped(bal, u, new) == bal

\* UPDATE users SET balance = new_balance WHERE id = p_user_id
UpdateUsersBalance(bal, u, new) == [bal EXCEPT ![u] = new]

\* a mutant of createTransactionCatch: every error is rethrown as it is
createTransactionCatchRethrows(e) == e.message

\* the errors that the query of createTransaction is rejected with
EngineErrors ==
    {DbUserNotFound, DbInsufficient, DbInvalidType, DbCheck, DbUnique, DbOverflow}

\* the catch block of TransactionRepository.createTransaction: the message of
\* the error it throws for each error caught
Rethrown ==
    [e \in EngineErrors |->
        IF Includes(e.message, "User not found") THEN "User not found"
        ELSE IF Includes(e.message, "Insufficient funds") THEN "Insufficient funds"
        ELSE IF e.code = "23505" THEN "Transaction ID already exists"
        ELSE e.message]

createTransactionCatch(e) == Rethrown[e]

\* a mutant of validateUserExists: every id passes
validateUserExistsSkipped(u) == "ok"

\* UserService.validateUserExists
validateUserExists(u) ==
    IF u \notin UserIds THEN "User not found"
    ELSE IF status[u] = "suspended" THEN "User account is suspended"
    ELSE IF status[u] = "inactive" THEN "User account is inactive"
    ELSE "ok"

\* --------------------------------------------------------------- Init
Init ==
    /\ balance = [u \in UserIds |-> IF u = "u2" THEN SeedBalance ELSE 0]
    /\ status = [u \in UserIds |-> "active"]
    /\ ledger = <<>>
    /\ rowLock = [u \in UserIds |-> NoProc]
    /\ pc = [p \in Procs |-> "idle"]
    /\ req = [p \in Procs |-> NoReq]
    /\ txn = [p \in Procs |-> NoTxn]
    /\ result = [p \in Procs |-> NoResult]
    /\ role = [u \in UserIds |-> IF u = "u2" THEN "admin" ELSE "player"]
    /\ last_login = [u \in UserIds |-> "null"]
    /\ http = [p \in Procs |-> NoHttp]

\* the seeded account holds a balance that is SeedBalance cents or less below
\* the largest DECIMAL(15, 2) value
InitNumeric ==
    /\ balance \in {[u \in UserIds |->
                       IF u = "u2" THEN NumericSub(NumericMax, Numeric(0, d))
                       ELSE NumericZero] : d \in 0 .. SeedBalance}
    /\ status = [u \in UserIds |-> "active"]
    /\ ledger = <<>>
    /\ rowLock = [u \in UserIds |-> NoProc]
    /\ pc = [p \in Procs |-> "idle"]
    /\ req = [p \in Procs |-> [NoReq EXCEPT !.amount = NumericZero]]
    /\ txn = [p \in Procs |-> NoTxn]
    /\ result = [p \in Procs |-> NoResult]
    /\ role = [u \in UserIds |-> IF u = "u2" THEN "admin" ELSE "player"]
    /\ last_login = [u \in UserIds |-> "null"]
    /\ http = [p \in Procs |-> NoHttp]

\* call slots are taken in order
MayStart(p) == pc[p] = "idle" /\ (IF p = 1 THEN TRUE ELSE pc[p - 1] # "idle")

\* Keys matter only by equality, so a behaviour takes them in order: key n + 1
\* is sent only after key n has been
KeysInOrder(k) ==
    IF k.n = 1 THEN TRUE
    ELSE \E q \in Procs : req[q].transactionId = [src |-> "client", n |-> k.n - 1]

\* the call returns or throws; the locals of process_transaction are gone
Finish(p, r) ==
    /\ pc' = [pc EXCEPT ![p] = "done"]
    /\ result' = [result EXCEPT ![p] = r]
    /\ txn' = [txn EXCEPT ![p] = NoTxn]

\* ------------------------------------------------------------ actions
\* a mutant of creditDebit: the account and the amount are validated before the
\* idempotency pre-check
creditDebitValidatesFirst(p, op, u, k, a) ==
    /\ MayStart(p)
    /\ op \in {"credit", "debit"}
    /\ KeysInOrder(k)
    /\ req' = [req EXCEPT ![p] = [op |-> op, userId |-> u, transactionId |-> k, amount |-> a]]
    /\ LET existingTransaction == getTransactionByTransactionId(k)
           v == validateUserExists(u)
           va == validateAmount(a)
       IN  IF v # "ok" THEN Finish(p, Threw(v))
           ELSE IF va # "ok" THEN Finish(p, Threw(va))
           ELSE IF existingTransaction # NoEntry
           THEN IF existingTransaction.userId # u
                THEN Finish(p, Threw("Transaction ID belongs to a different user"))
                ELSE IF existingTransaction.type # op
                THEN Finish(p, Threw("Transaction ID already used for a different operation type"))
                ELSE Finish(p, Replayed(existingTransaction))
           ELSE /\ pc' = [pc EXCEPT ![p] = "engine"]
                /\ UNCHANGED <<result, txn>>
    /\ UNCHANGED <<balance, status, ledger, rowLock, role, last_login>>

\* a mutant of creditDebit: the amount is validated before the account
creditDebitAmountFirst(p, op, u, k, a) ==
    /\ MayStart(p)
    /\ op \in {"credit", "debit"}
    /\ KeysInOrder(k)
    /\ req' = [req EXCEPT ![p] = [op |-> op, userId |-> u, transactionId |-> k, amount |-> a]]
    /\ LET existingTransaction == getTransactionByTransactionId(k)
           v == validateUserExists(u)
           va == validateAmount(a)
       IN  IF existingTransaction # NoEntry
           THEN IF existingTransaction.userId # u
                THEN Finish(p, Threw("Transaction ID belongs to a different user"))
                ELSE IF existingTransaction.type # op
                THEN Finish(p, Threw("Transaction ID already used for a different operation type"))
                ELSE Finish(p, Replayed(existingTransaction))
           ELSE IF va # "ok" THEN Finish(p, Threw(va))
           ELSE IF v # "ok" THEN Finish(p, Threw(v))
           ELSE /\ pc' = [pc EXCEPT ![p] = "engine"]
                /\ UNCHANGED <<result, txn>>
    /\ UNCHANGED <<balance, status, ledger, rowLock, role, last_login>>

\* (These say nothing of http: a caller of the service leaves it unchanged,
\* the controller records the request in it.)
\* creditUser / debitUser up to the call of createTransaction: the idempotency
\* pre-check (a read of transactions), validateUserExists (a read of users) and
\* validateAmount.  The two reads are one step here: any write of another
\* caller touches only one of the two tables' columns read, so it commutes
\* with one of the reads and every outcome of the two-step order is kept.
creditDebit(p, op, u, k, a) ==
    /\ MayStart(p)
    /\ op \in {"credit", "debit"}
    /\ KeysInOrder(k)
    /\ req' = [req EXCEPT ![p] = [op |-> op, userId |-> u, transactionId |-> k, amount |-> a]]
    /\ LET existingTransaction == getTransactionByTransactionId(k)
           v == validateUserExists(u)
           va == validateAmount(a)
       IN  IF existingTransaction # NoEntry
           THEN IF existingTransaction.userId # u
                THEN Finish(p, Threw("Transaction ID belongs to a different user"))
                ELSE IF existingTransaction.type # op
                THEN Finish(p, Threw("Transaction ID already used for a different operation type"))
                ELSE Finish(p, Replayed(existingTransaction))
           ELSE IF v # "ok" THEN Finish(p, Threw(v))
           ELSE IF va # "ok" THEN Finish(p, Threw(va))
           ELSE /\ pc' = [pc EXCEPT ![p] = "engine"]
                /\ UNCHANGED <<result, txn>>
    /\ UNCHANGED <<balance, status, ledger, rowLock, role, last_login>>

\* a mutant of processWagerPayout: the key is the same for every call of the
\* operation
processWagerPayoutFixedKey(p, op, u, a) ==
    /\ MayStart(p)
    /\ op \in {"wager", "payout"}
    /\ req' = [req EXCEPT ![p] = [op |-> op, userId |-> u,
                                  transactionId |-> [src |-> op, n |-> 0], amount |-> a]]
    /\ LET v == validateUserExists(u)
       IN  IF v # "ok" THEN Finish(p, Threw(v))
           ELSE /\ pc' = [pc EXCEPT ![p] = "engine"]
                /\ UNCHANGED <<result, txn>>
    /\ UNCHANGED <<balance, status, ledger, rowLock, role, last_login, http>>

\* processWager / processPayout up to the call of createTransaction: a fresh
\* key, then validateUserExists (the amount is not validated)
processWagerPayout(p, op, u, a) ==
    /\ MayStart(p)
    /\ op \in {"wager", "payout"}
    /\ req' = [req EXCEPT ![p] = [op |-> op, userId |-> u,
                                  transactionId |-> [src |-> op, n |-> p], amount |-> a]]
    /\ LET v == validateUserExists(u)
       IN  IF v # "ok" THEN Finish(p, Threw(v))
           ELSE /\ pc' = [pc EXCEPT ![p] = "engine"]
                /\ UNCHANGED <<result, txn>>
    /\ UNCHANGED <<balance, status, ledger, rowLock, role, last_login, http>>

\* TransactionRepository.createTransaction called by itself, up to its query:
\* no lookup by key and no validation precede the engine
createTransaction(p, type, u, k, a) ==
    /\ MayStart(p)
    /\ type \in TransactionType
    /\ req' = [req EXCEPT ![p] = [op |-> type, userId |-> u, transactionId |-> k,
                                  amount |-> a]]
    /\ pc' = [pc EXCEPT ![p] = "engine"]
    /\ UNCHANGED <<balance, status, ledger, rowLock, result, txn, role, last_login, http>>

\* TransactionRepository.createTransaction while no other statement is in
\* flight, with balances and amounts of whole cents written in limbs (an amount
\* is at most NumericMax): process_transaction from its SELECT to its RETURN,
\* or to the exception that undoes it, and the catch block
createTransactionAlone(p, type, u, k, a) ==
    /\ MayStart(p)
    /\ type \in TransactionType
    /\ req' = [req EXCEPT ![p] = [op |-> type, userId |-> u, transactionId |-> k,
                                  amount |-> a]]
    /\ LET cur == IF u \in UserIds THEN balance[u] ELSE NumericZero
           sum == NumericAdd(cur, a)
           e == IF u \notin UserIds THEN DbUserNotFound
                ELSE IF CreditClass(type) /\ NumericOverflows(sum) THEN DbOverflow
                ELSE IF DebitClass(type) /\ NumericLess(cur, a) THEN DbInsufficient
                ELSE IF NumericOverflows(a) THEN DbOverflow
                ELSE IF ~NumericLess(NumericZero, a) THEN DbCheck
                ELSE IF UniqueViolation(k) THEN DbUnique
                ELSE DbNone
           new == IF CreditClass(type) THEN sum ELSE NumericSub(cur, a)
           transaction_record ==
               [id |-> Len(ledger) + 1, userId |-> u, transactionId |-> k, type |-> type,
                amount |-> a, balanceBefore |-> cur, balanceAfter |-> new]
       IN  IF e # DbNone
           THEN /\ Finish(p, Threw(createTransactionCatch(e)))
                /\ UNCHANGED <<balance, ledger>>
           ELSE /\ ledger' = InsertTransaction(ledger, transaction_record)
                /\ balance' = UpdateUsersBalance(balance, u, new)
                /\ Finish(p, Created(transaction_record))
    /\ UNCHANGED <<status, rowLock, role, last_login, http>>

\* An exception ends the statement's transaction: nothing it wrote is kept and
\* the row lock is released; createTransaction rethrows it
Abort(p, e) ==
    /\ Finish(p, Threw(createTransactionCatch(e)))
    /\ rowLock' = [rowLock EXCEPT ![req[p].userId] = NoProc]

\* the INSERT's unique index check, once no other transaction holds the key
InsertRow(p) ==
    IF UniqueViolation(req[p].transactionId)
    THEN Abort(p, DbUnique)
    ELSE /\ pc' = [pc EXCEPT ![p] = "inserted"]
         /\ UNCHANGED <<result, txn, rowLock>>

\* process_transaction from SELECT ... FOR UPDATE to the INSERT: the SELECT
\* waits for the row lock, reads the balance under it; the CASE computes
\* new_balance or raises; the INSERT raises, waits for an uncommitted row with
\* the same key, or inserts
LockAndInsert(p) ==
    /\ pc[p] = "engine"
    /\ IF req[p].userId \notin UserIds
       THEN /\ Finish(p, Threw(createTransactionCatch(DbUserNotFound)))
            /\ UNCHANGED rowLock
       ELSE /\ ~RowLocked(req[p].userId)
            /\ LET cur == balance[req[p].userId]
                   e == Raised(req[p].op, cur, req[p].amount)
               IN  IF e # DbNone
                   THEN /\ Finish(p, Threw(createTransactionCatch(e)))
                        /\ UNCHANGED rowLock
                   ELSE IF UniqueViolation(req[p].transactionId)
                   THEN /\ Finish(p, Threw(createTransactionCatch(DbUnique)))
                        /\ UNCHANGED rowLock
                   ELSE /\ rowLock' = [rowLock EXCEPT ![req[p].userId] = p]
                        /\ txn' = [txn EXCEPT ![p] =
                                     [current_balance |-> cur,
                                      new_balance |-> NewBalance(req[p].op, cur, req[p].amount),
                                      user_status |-> ""]]
                        /\ pc' = [pc EXCEPT ![p] =
                                    IF InsertWaits(p) THEN "waiting" ELSE "inserted"]
                        /\ UNCHANGED result
    /\ UNCHANGED <<balance, status, ledger, req, role, last_login, http>>

\* the INSERT resumes when the transaction that held the key has ended
InsertResume(p) ==
    /\ pc[p] = "waiting"
    /\ ~InsertWaits(p)
    /\ InsertRow(p)
    /\ UNCHANGED <<balance, status, ledger, req, role, last_login, http>>

\* process_transaction: the UPDATE of users, RETURN, and the commit of the
\* statement's transaction: the row and the balance become visible together
Commit(p) ==
    /\ pc[p] = "inserted"
    /\ LET transaction_record ==
               [id |-> Len(ledger) + 1,
                userId |-> req[p].userId,
                transactionId |-> req[p].transactionId,
                type |-> req[p].op,
                amount |-> RoundCents(req[p].amount),
                balanceBefore |-> txn[p].current_balance,
                balanceAfter |-> txn[p].new_balance]
       IN  /\ ledger' = InsertTransaction(ledger, transaction_record)
           /\ balance' = UpdateUsersBalance(balance, req[p].userId, txn[p].new_balance)
           /\ Finish(p, Created(transaction_record))
    /\ rowLock' = [rowLock EXCEPT ![req[p].userId] = NoProc]
    /\ UNCHANGED <<status, req, role, last_login, http>>

\* UserRepository.updateUserStatus, called by an administrator: one UPDATE,
\* which waits for the row lock; no row matches a missing id
updateUserStatus(p, u, s) ==
    /\ MayStart(p)
    /\ IF u \in UserIds
       THEN /\ ~RowLocked(u)
            /\ status' = [status EXCEPT ![u] = s]
       ELSE UNCHANGED status
    /\ req' = [req EXCEPT ![p] = [op |-> "status", userId |-> u,
                                  transactionId |-> NoKey, amount |-> 0]]
    /\ Finish(p, IF u \in UserIds THEN Returned("updated", 0) ELSE Returned("null", 0))
    /\ UNCHANGED <<balance, ledger, rowLock, role, last_login, http>>

\* UserService.authenticateUser up to the SELECT of verifyPassword: no row for
\* the email, or a password that does not match, returns null
authenticateUser(p, u, valid) ==
    /\ MayStart(p)
    /\ req' = [req EXCEPT ![p] = [op |-> "login", userId |-> u,
                                  transactionId |-> NoKey, amount |-> 0]]
    /\ IF u \notin UserIds \/ ~valid
       THEN Finish(p, Returned("null", 0))
       ELSE /\ pc' = [pc EXCEPT ![p] = "login"]
            /\ txn' = [txn EXCEPT ![p] = [NoTxn EXCEPT !.user_status = status[u]]]
            /\ UNCHANGED result
    /\ UNCHANGED <<balance, status, ledger, rowLock, role, last_login, http>>

\* verifyPassword's UPDATE users SET last_login, which waits for the row lock,
\* then authenticateUser's test of the status that the SELECT has read
UpdateLastLogin(p) ==
    /\ pc[p] = "login"
    /\ ~RowLocked(req[p].userId)
    /\ last_login' = [last_login EXCEPT ![req[p].userId] = "set"]
    /\ Finish(p, IF txn[p].user_status # "active"
                 THEN Threw("Account is " \o txn[p].user_status)
                 ELSE Returned("token", 0))
    /\ UNCHANGED <<balance, status, ledger, rowLock, req, role, http>>

\* WalletService.getUserBalance: a read of users.balance
getUserBalance(p, u) ==
    /\ MayStart(p)
    /\ req' = [req EXCEPT ![p] = [op |-> "balance", userId |-> u,
                                  transactionId |-> NoKey, amount |-> 0]]
    /\ Finish(p, IF u \in UserIds THEN Returned("balance", balance[u])
                 ELSE Threw("User not found"))
    /\ UNCHANGED <<balance, status, ledger, rowLock, role, last_login, http>>

\* WalletService.getTransactionByTransactionId: a read of transactions
getTransaction(p, k) ==
    /\ MayStart(p)
    /\ req' = [req EXCEPT ![p] = [op |-> "query", userId |-> MissingId,
                                  transactionId |-> k, amount |-> 0]]
    /\ LET e == getTransactionByTransactionId(k)
       IN  Finish(p, IF e = NoEntry THEN Returned("null", 0)
                     ELSE [Returned("found", 0) EXCEPT !.entry = e])
    /\ UNCHANGED <<balance, status, ledger, rowLock, role, last_login, http>>

\* seedDatabase, after its INSERT INTO users (..., balance) for the seeded
\* account: the "initial credit" of the same amount, a direct call of
\* process_transaction with a key of its own, made once
SeedKey == [src |-> "seed", n |-> 0]

seedInitialCredit(p) ==
    /\ MayStart(p)
    /\ \A q \in Procs : req[q].transactionId # SeedKey
    /\ req' = [req EXCEPT ![p] = [op |-> "credit", userId |-> "u2",
                                  transactionId |-> SeedKey,
                                  amount |-> SeedBalance * Cent]]
    /\ pc' = [pc EXCEPT ![p] = "engine"]
    /\ UNCHANGED <<balance, status, ledger, rowLock, result, txn, role, last_login, http>>

\* ----------------------------------------------------- the HTTP layer
\* what a middleware does with a request: it calls next() or sends a response
PassOn == [status |-> 0, code |-> "next"]
Respond(st, c) == [status |-> st, code |-> c]

NoToken == [kind |-> "none", id |-> "u0", role |-> ""]
BadToken == [kind |-> "invalid", id |-> "u0", role |-> ""]
\* a token that generateToken has signed for user u when its role was r
TokenOf(u, r) == [kind |-> "valid", id |-> u, role |-> r]

\* app.use('/api', authenticateApiKey)
authenticateApiKey(apiKey) ==
    IF ~apiKey THEN Respond(401, "UNAUTHORIZED") ELSE PassOn

\* authenticateToken: no token, or jwt.verify fails, or req.user = decoded
authenticateToken(token) ==
    IF token.kind = "none" THEN Respond(401, "UNAUTHORIZED")
    ELSE IF token.kind # "valid" THEN Respond(403, "FORBIDDEN")
    ELSE PassOn

\* a mutant of requireRole: any authenticated user passes
requireRoleSkipped(roles, token) == PassOn

\* requireRole(roles), after authenticateToken has set req.user
requireRole(roles, token) ==
    IF token.kind # "valid" THEN Respond(401, "UNAUTHORIZED")
    ELSE IF token.role \notin roles THEN Respond(403, "FORBIDDEN")
    ELSE PassOn

requireAdmin(token) == requireRole({"admin"}, token)

\* router.post('/users/:userId/credit' | '/users/:userId/debit',
\* authenticateToken, requireAdmin, ...) behind the API key middleware: the
\* first response of the chain, or PassOn when the controller is reached
AdminRoute(apiKey, token) ==
    IF authenticateApiKey(apiKey) # PassOn THEN authenticateApiKey(apiKey)
    ELSE IF authenticateToken(token) # PassOn THEN authenticateToken(token)
    ELSE requireAdmin(token)

\* Joi.number().precision(2) with convert: the value is replaced by
\* Math.round(value * 100) / 100 before the rules are tested
JoiPrecision(a) == ((a + UnitsPerCent \div 2) \div UnitsPerCent) * UnitsPerCent

\* creditSchema / debitSchema .validate(req.body), the amount:
\* Joi.number().positive().precision(2).required()
amountSchema(a) ==
    IF JoiPrecision(a) > 0 THEN [error |-> FALSE, value |-> JoiPrecision(a)]
    ELSE [error |-> TRUE, value |-> JoiPrecision(a)]

\* the catch block of WalletController.creditUser
creditUserCatch(message) ==
    IF Includes(message, "User not found") THEN Respond(404, "NOT_FOUND")
    ELSE IF Includes(message, "Transaction ID") THEN Respond(409, "CONFLICT")
    ELSE Respond(500, "INTERNAL_ERROR")

\* the catch block of WalletController.debitUser
debitUserCatch(message) ==
    IF Includes(message, "User not found") THEN Respond(404, "NOT_FOUND")
    ELSE IF Includes(message, "Insufficient funds") THEN Respond(400, "INSUFFICIENT_FUNDS")
    ELSE IF Includes(message, "Transaction ID") THEN Respond(409, "CONFLICT")
    ELSE Respond(500, "INTERNAL_ERROR")

Sent(p, apiKey, token, r) ==
    [http EXCEPT ![p] = [NoHttp EXCEPT !.apiKey = apiKey, !.token = token,
                                       !.status = r.status, !.code = r.code]]

\* POST /api/wallet/users/:userId/credit and .../debit: the middleware chain,
\* then WalletController.creditUser / debitUser up to the service call, which
\* gets the body that the schema has converted
postCreditDebit(p, op, apiKey, token, u, k, a) ==
    IF AdminRoute(apiKey, token) # PassOn \/ amountSchema(a).error
    THEN /\ MayStart(p)
         /\ op \in {"credit", "debit"}
         /\ req' = [req EXCEPT ![p] = [op |-> op, userId |-> u,
                                       transactionId |-> k, amount |-> a]]
         /\ pc' = [pc EXCEPT ![p] = "done"]
         /\ http' = Sent(p, apiKey, token,
                         IF AdminRoute(apiKey, token) # PassOn
                         THEN AdminRoute(apiKey, token)
                         ELSE Respond(400, "VALIDATION_ERROR"))
         /\ UNCHANGED <<balance, status, ledger, rowLock, result, txn, role, last_login>>
    ELSE /\ creditDebit(p, op, u, k, amountSchema(a).value)
         /\ http' = Sent(p, apiKey, token, Respond(0, "pending"))

\* the controller's response once the service call has returned or thrown
sendResponse(p) ==
    /\ pc[p] = "done"
    /\ http[p].code = "pending"
    /\ http' = [http EXCEPT ![p] =
                   [@ EXCEPT !.status = IF result[p].kind # "error" THEN 201
                                        ELSE IF req[p].op = "credit"
                                        THEN creditUserCatch(result[p].error).status
                                        ELSE debitUserCatch(result[p].error).status,
                             !.code = IF result[p].kind # "error" THEN "created"
                                      ELSE IF req[p].op = "credit"
                                      THEN creditUserCatch(result[p].error).code
                                      ELSE debitUserCatch(result[p].error).code]]
    /\ UNCHANGED <<balance, status, ledger, rowLock, pc, req, txn, result, role, last_login>>

\* ------------------------------------------- Database.transaction
\* the locals of a Database.transaction call: the statements sent on its
\* client, how the callback ended, the error its catch block caught, and how
\* often the client was released
NoClient == [issued |-> <<>>, callback |-> "none", error |-> "", releases |-> 0]

\* const client = await this.pool.connect(), outside the try block
transactionConnect(p, ok) ==
    /\ MayStart(p)
    /\ req' = [req EXCEPT ![p] = [op |-> "transaction", userId |-> MissingId,
                                  transactionId |-> NoKey, amount |-> 0]]
    /\ txn' = [txn EXCEPT ![p] = NoClient]
    /\ pc' = [pc EXCEPT ![p] = IF ok THEN "begin" ELSE "done"]
    /\ result' = [result EXCEPT ![p] = IF ok THEN NoResult ELSE Threw("connect failed")]
    /\ UNCHANGED <<balance, status, ledger, rowLock, role, last_login, http>>

\* one statement of the try block, or the callback: it resolves, or it throws
\* and the catch block is entered with its error
TryStep(p, at, statement, next, ok) ==
    /\ pc[p] = at
    /\ txn' = [txn EXCEPT ![p] =
                 [@ EXCEPT !.issued = IF statement = "" THEN @ ELSE Append(@, statement),
                           !.callback = IF at # "callback" THEN @
                                        ELSE IF ok THEN "resolved" ELSE "threw",
                           !.error = IF ok THEN @
                                     ELSE IF statement = "" THEN "callback failed"
                                     ELSE statement \o " failed"]]
    /\ pc' = [pc EXCEPT ![p] = IF ok THEN next ELSE "rollback"]
    /\ UNCHANGED <<balance, status, ledger, rowLock, req, result, role, last_login, http>>

\* await client.query('BEGIN')
transactionBegin(p, ok) == TryStep(p, "begin", "BEGIN", "callback", ok)

\* const result = await callback(client)
transactionCallback(p, ok) == TryStep(p, "callback", "", "commit", ok)

\* await client.query('COMMIT'); return result
transactionCommit(p, ok) == TryStep(p, "commit", "COMMIT", "finally", ok)

\* catch (error) { await client.query('ROLLBACK'); throw error; }: when the
\* ROLLBACK throws, its error leaves the catch block and throw error is not
\* reached
transactionRollback(p, ok) ==
    /\ pc[p] = "rollback"
    /\ txn' = [txn EXCEPT ![p] = [@ EXCEPT !.issued = Append(@, "ROLLBACK")]]
    /\ result' = [result EXCEPT ![p] = Threw(IF ok THEN txn[p].error ELSE "ROLLBACK failed")]
    /\ pc' = [pc EXCEPT ![p] = "finally"]
    /\ UNCHANGED <<balance, status, ledger, rowLock, req, role, last_login, http>>

\* finally { client.release(); }, then the call returns or throws
transactionFinally(p) ==
    /\ pc[p] = "finally"
    /\ txn' = [txn EXCEPT ![p] = [@ EXCEPT !.releases = @ + 1]]
    /\ result' = [result EXCEPT ![p] = IF @.kind = "error" THEN @
                                       ELSE Returned("resolved", 0)]
    /\ pc' = [pc EXCEPT ![p] = "done"]
    /\ UNCHANGED <<balance, status, ledger, rowLock, req, role, last_login, http>>

\* ------------------------------------------------- gracefulShutdown
\* Each SIGTERM / SIGINT is a call of gracefulShutdown.  Its locals: what the
\* server was doing when its callback was last heard of, and what became of the
\* pool.end() that its database.close() called
Shutdown(signal, server, poolEnd) ==
    [signal |-> signal, server |-> server, poolEnd |-> poolEnd]

Signalled == {p \in Procs : req[p].op = "signal"}
\* process.exit has been called
Exited == \E p \in Signalled : pc[p] = "done"
\* pool.end() has been called: the pool is ending or has ended
PoolEnding == \E p \in Signalled : txn[p].poolEnd # "none"

\* process.on('SIGTERM' | 'SIGINT'): gracefulShutdown calls server.close with
\* its callback, which waits for the server's 'close' event
gracefulShutdown(p, signal) ==
    /\ MayStart(p)
    /\ ~Exited
    /\ req' = [req EXCEPT ![p] = [op |-> "signal", userId |-> MissingId,
                                  transactionId |-> NoKey, amount |-> 0]]
    /\ txn' = [txn EXCEPT ![p] = Shutdown(signal, "closing", "none")]
    /\ pc' = [pc EXCEPT ![p] = "closing"]
    /\ UNCHANGED <<balance, status, ledger, rowLock, result, role, last_login, http>>

\* The server emits 'close' (for a server.close called after the server had
\* closed, on the next tick): the callbacks that wait for it run in the order
\* they were registered, each up to its await database.close().  The first
\* pool.end() of the process returns a promise that is settled when the pool
\* has ended; pg-pool rejects every later one at once ('Called end on pool more
\* than once')
serverClosed ==
    /\ ~Exited
    /\ \E p \in Signalled : pc[p] = "closing"
    /\ LET waiting == {p \in Signalled : pc[p] = "closing"}
           first == CHOOSE p \in waiting : \A q \in waiting : p <= q
           ends(p) == ~PoolEnding /\ p = first
       IN  /\ txn' = [p \in Procs |->
                        IF p \in waiting
                        THEN Shutdown(txn[p].signal, "closed",
                                      IF ends(p) THEN "pending" ELSE "refused")
                        ELSE txn[p]]
           /\ pc' = [p \in Procs |-> IF p \in waiting THEN "closingPool" ELSE pc[p]]
    /\ UNCHANGED <<balance, status, ledger, rowLock, req, result, role, last_login, http>>

\* await database.close() settles: process.exit(0) when it resolved,
\* process.exit(1) from the catch block when it threw.  The pending pool.end()
\* resolves or throws whenever the pool has ended; a refused one has thrown
databaseClosed(p, ok) ==
    /\ ~Exited
    /\ p \in Signalled
    /\ pc[p] = "closingPool"
    /\ txn[p].poolEnd = "refused" => ~ok
    /\ txn' = [txn EXCEPT ![p] =
                 [@ EXCEPT !.poolEnd = IF @ = "refused" THEN @
                                       ELSE IF ok THEN "resolved" ELSE "threw"]]
    /\ result' = [result EXCEPT ![p] = Returned("exit", IF ok THEN 0 ELSE 1)]
    /\ pc' = [pc EXCEPT ![p] = "done"]
    /\ UNCHANGED <<balance, status, ledger, rowLock, req, role, last_login, http>>

\* ---------------------------------------------------- setupDatabase
\* A line of the SQL script, by what the splitter reads of it: whether its
\* trimmed text starts with '--' or is empty, how often '$$' occurs in it, and
\* whether it ends with ';'.  A comment line may hold '$$' and end with ';'
SqlLines == [kind : {"sql"}, dollars : 0 .. 2, semi : BOOLEAN]
Lines == SqlLines \cup {[kind |-> "comment", dollars |-> 1, semi |-> TRUE],
                        [kind |-> "empty", dollars |-> 0, semi |-> FALSE]}
Scripts == UNION {[1 .. n -> Lines] : n \in 1 .. MaxLines}

\* statements, currentStatement, inDollarQuotes and i before the loop
\* (dollarQuoteStart is written and never read)
NoSplit(lines) ==
    [lines |-> lines, i |-> 0, statements |-> <<>>, currentStatement |-> <<>>,
     inDollarQuotes |-> FALSE]

\* a mutant of SplitLine: a line that ends with ';' ends the statement,
\* whatever inDollarQuotes is
SplitLineAtEverySemicolon(s, line) ==
    IF line.kind \in {"comment", "empty"} THEN [s EXCEPT !.i = @ + 1]
    ELSE LET quoted == IF ~s.inDollarQuotes THEN line.dollars = 1
                       ELSE ~(line.dollars >= 1)
             current == Append(s.currentStatement, line)
         IN  IF line.semi
             THEN [s EXCEPT !.i = @ + 1, !.inDollarQuotes = quoted,
                            !.statements = Append(@, current),
                            !.currentStatement = <<>>]
             ELSE [s EXCEPT !.i = @ + 1, !.inDollarQuotes = quoted,
                            !.currentStatement = current]

\* one turn of the while loop
SplitLine(s, line) ==
    IF line.kind \in {"comment", "empty"} THEN [s EXCEPT !.i = @ + 1]
    ELSE LET quoted == IF ~s.inDollarQuotes THEN line.dollars = 1
                       ELSE ~(line.dollars >= 1)
             current == Append(s.currentStatement, line)
         IN  IF ~quoted /\ line.semi
             THEN [s EXCEPT !.i = @ + 1, !.inDollarQuotes = quoted,
                            !.statements = Append(@, current),
                            !.currentStatement = <<>>]
             ELSE [s EXCEPT !.i = @ + 1, !.inDollarQuotes = quoted,
                            !.currentStatement = current]

\* the script is run once
SetupNotRun == \A q \in Procs : req[q].op # "setup"

\* the script reads the file and splits it into lines
setupDatabase(p, lines) ==
    /\ MayStart(p)
    /\ SetupNotRun
    /\ req' = [req EXCEPT ![p] = [op |-> "setup", userId |-> MissingId,
                                  transactionId |-> NoKey, amount |-> 0]]
    /\ txn' = [txn EXCEPT ![p] = NoSplit(lines)]
    /\ pc' = [pc EXCEPT ![p] = "lines"]
    /\ UNCHANGED <<balance, status, ledger, rowLock, result, role, last_login, http>>

\* while (i < lines.length) { ... i++ }
setupDatabaseLine(p) ==
    /\ pc[p] = "lines"
    /\ txn[p].i < Len(txn[p].lines)
    /\ txn' = [txn EXCEPT ![p] = SplitLine(@, @.lines[@.i + 1])]
    /\ UNCHANGED <<balance, status, ledger, rowLock, pc, req, result, role, last_login, http>>

\* if (currentStatement.trim()) statements.push(currentStatement.trim());
\* the statements are then sent to the database one by one
setupDatabaseRemainder(p) ==
    /\ pc[p] = "lines"
    /\ txn[p].i = Len(txn[p].lines)
    /\ txn' = [txn EXCEPT ![p] =
                 IF @.currentStatement = <<>> THEN @
                 ELSE [@ EXCEPT !.statements = Append(@, txn[p].currentStatement),
                                !.currentStatement = <<>>]]
    /\ pc' = [pc EXCEPT ![p] = "done"]
    /\ result' = [result EXCEPT ![p] = Returned("statements", 0)]
    /\ UNCHANGED <<balance, status, ledger, rowLock, req, role, last_login, http>>

\* ------------------------------------------------------ statistics
\* FROM transactions ${whereClause}: the rows of one user, or of all when the
\* userId is absent
StatsRows(userId) ==
    IF userId = "" THEN ledger ELSE SelectSeq(ledger, LAMBDA e : e.userId = userId)

\* SUM(CASE WHEN type IN (...) THEN amount ELSE 0 END) over rows
RECURSIVE SumCase(_, _)
SumCase(rows, types) ==
    IF rows = <<>> THEN 0
    ELSE (IF Head(rows).type \in types THEN Head(rows).amount ELSE 0)
         + SumCase(Tail(rows), types)

\* a mutant of repositoryGetTransactionStats: payouts are not counted as credits
repositoryGetTransactionStatsCreditsOnly(userId) ==
    [totalTransactions |-> Len(StatsRows(userId)),
     totalCredits |-> SumCase(StatsRows(userId), {"credit", "bonus", "refund"}),
     totalDebits |-> SumCase(StatsRows(userId), {"debit", "wager"}),
     totalWagers |-> SumCase(StatsRows(userId), {"wager"}),
     totalPayouts |-> SumCase(StatsRows(userId), {"payout"})]

\* TransactionRepository.getTransactionStats; COALESCE(..., 0) gives 0 for the
\* SUM of no rows
repositoryGetTransactionStats(userId) ==
    [totalTransactions |-> Len(StatsRows(userId)),
     totalCredits |-> SumCase(StatsRows(userId), {"credit", "payout", "bonus", "refund"}),
     totalDebits |-> SumCase(StatsRows(userId), {"debit", "wager"}),
     totalWagers |-> SumCase(StatsRows(userId), {"wager"}),
     totalPayouts |-> SumCase(StatsRows(userId), {"payout"})]

\* WalletService.getTransactionStats: validateUserExists when a userId is
\* given, then the repository's query
getTransactionStats(p, u) ==
    /\ MayStart(p)
    /\ req' = [req EXCEPT ![p] = [op |-> "stats", userId |-> u,
                                  transactionId |-> NoKey, amount |-> 0]]
    /\ Finish(p, IF u # "" /\ validateUserExists(u) # "ok"
                 THEN Threw(validateUserExists(u))
                 ELSE [Returned("stats", 0) EXCEPT
                          !.stats = repositoryGetTransactionStats(u)])
    /\ UNCHANGED <<balance, status, ledger, rowLock, role, last_login, http>>

\* ---------------------------------------------------- the listing
\* the routes of routes/wallet.ts in the order they are registered
WalletRoutes ==
    << [method |-> "GET", path |-> "/balance", admin |-> FALSE,
        handler |-> "getMyBalance"],
       [method |-> "GET", path |-> "/transactions", admin |-> FALSE,
        handler |-> "getMyTransactions"],
       [method |-> "POST", path |-> "/users/:userId/credit", admin |-> TRUE,
        handler |-> "creditUser"],
       [method |-> "POST", path |-> "/users/:userId/debit", admin |-> TRUE,
        handler |-> "debitUser"],
       [method |-> "GET", path |-> "/users/:userId/balance", admin |-> TRUE,
        handler |-> "getUserBalance"],
       [method |-> "GET", path |-> "/users/:userId/transactions", admin |-> TRUE,
        handler |-> "getUserTransactions"],
       [method |-> "GET", path |-> "/users/:userId/stats", admin |-> TRUE,
        handler |-> "getUserTransactionStats"],
       [method |-> "GET", path |-> "/transactions", admin |-> TRUE,
        handler |-> "getTransactions"],
       [method |-> "GET", path |-> "/stats", admin |-> TRUE,
        handler |-> "getTransactionStats"] >>

\* Express runs the handlers of the first registered route that matches; a
\* later route runs only if a handler calls next() without responding, which
\* no controller does
RouteFor(method, path) ==
    LET matching == {i \in DOMAIN WalletRoutes :
                        WalletRoutes[i].method = method /\ WalletRoutes[i].path = path}
    IN  WalletRoutes[CHOOSE i \in matching : \A j \in matching : i <= j]

\* the middleware of a route behind app.use('/api', authenticateApiKey)
RouteGuards(route, apiKey, token) ==
    IF authenticateApiKey(apiKey) # PassOn THEN authenticateApiKey(apiKey)
    ELSE IF authenticateToken(token) # PassOn THEN authenticateToken(token)
    ELSE IF route.admin THEN requireAdmin(token)
    ELSE PassOn

\* listTransactionsSchema, of the fields a request sends
listTransactionsSchema(q) ==
    [error |-> ~(/\ q.limit >= 1 /\ q.limit <= 100
                 /\ q.sortBy \in {"processedAt", "amount", "type"}
                 /\ q.sortOrder \in {"asc", "desc"})]

\* the place of a label in CREATE TYPE transaction_type AS ENUM (...)
TypeRank(t) ==
    CASE t = "credit" -> 1 [] t = "debit" -> 2 [] t = "wager" -> 3
      [] t = "payout" -> 4 [] t = "bonus" -> 5 [] t = "refund" -> 6

\* the value ORDER BY ${dbSortBy} compares; the rows' processed_at values are
\* taken to be distinct and in the order of their ids
SortKey(e, sortBy) ==
    IF sortBy = "amount" THEN e.amount
    ELSE IF sortBy = "type" THEN TypeRank(e.type)
    ELSE e.id

\* WHERE user_id = $1, when the query has a userId
Selected(q) ==
    {i \in 1 .. Len(ledger) : q.userId # "" => ledger[i].userId = q.userId}

\* ORDER BY ${dbSortBy} ${sortOrder}: the orders of the selected rows that the
\* statement may produce; rows with equal sort keys come in any order
Orderings(q) ==
    {s \in [1 .. Cardinality(Selected(q)) -> Selected(q)] :
        /\ \A i, j \in DOMAIN s : i # j => s[i] # s[j]
        /\ \A i, j \in DOMAIN s :
               i < j => IF q.sortOrder = "asc"
                        THEN SortKey(ledger[s[i]], q.sortBy) <= SortKey(ledger[s[j]], q.sortBy)
                        ELSE SortKey(ledger[s[i]], q.sortBy) >= SortKey(ledger[s[j]], q.sortBy)}

\* LIMIT $n OFFSET $m
LimitOffset(s, limit, offset) ==
    SubSeq(s, offset + 1, IF offset + limit < Len(s) THEN offset + limit ELSE Len(s))

\* Math.ceil(total / limit)
Pages(total, limit) == (total + limit - 1) \div limit

\* GET /api/wallet/transactions?page=..&limit=..&sortBy=..&sortOrder=..&userId=..:
\* the route's middleware, the controller's validation of the query, then
\* getMyTransactions (the service's getUserTransactions for the token's user:
\* validateUserExists, then the repository's getTransactions with that userId)
\* or getTransactions (the repository's getTransactions with the query as
\* sent). The client keeps the rows of the pages it has read.
ServeTransactions(p, apiKey, token, q, page) ==
    LET route == RouteFor("GET", "/transactions")
        guards == RouteGuards(route, apiKey, token)
        params == IF route.handler = "getMyTransactions"
                  THEN [q EXCEPT !.userId = token.id] ELSE q
        refused == IF guards # PassOn THEN guards
                   ELSE IF listTransactionsSchema(q).error
                   THEN Respond(400, "VALIDATION_ERROR")
                   ELSE IF route.handler = "getMyTransactions"
                           /\ validateUserExists(token.id) # "ok"
                   THEN Respond(500, "INTERNAL_ERROR")
                   ELSE PassOn
    IN  /\ req' = [req EXCEPT ![p] = [op |-> "list", userId |-> token.id,
                                      transactionId |-> NoKey, amount |-> 0]]
        /\ IF refused # PassOn
           THEN /\ http' = [http EXCEPT ![p] =
                              [@ EXCEPT !.apiKey = apiKey, !.token = token, !.query = q,
                                        !.status = refused.status, !.code = refused.code]]
                /\ pc' = [pc EXCEPT ![p] = "done"]
           ELSE \E s \in Orderings(params) :
                    LET total == Len(s)
                    IN  /\ http' = [http EXCEPT ![p] =
                                      [@ EXCEPT !.apiKey = apiKey, !.token = token,
                                                !.query = q,
                                                !.status = 200, !.code = "ok",
                                                !.page = page,
                                                !.pages = Pages(total, q.limit),
                                                !.total = total,
                                                !.firstTotal = IF page = 1 THEN total ELSE @,
                                                !.data = @ \o LimitOffset(s, q.limit,
                                                                          (page - 1) * q.limit)]]
                        /\ pc' = [pc EXCEPT ![p] =
                                    IF page < Pages(total, q.limit) THEN "paging" ELSE "done"]
        /\ UNCHANGED <<balance, status, ledger, rowLock, txn, result, role, last_login>>

\* GET /api/wallet/balance: the route's middleware, then
\* WalletController.getMyBalance, which reads the balance of the token's user
getMyBalance(p, apiKey, token) ==
    LET guards == RouteGuards(RouteFor("GET", "/balance"), apiKey, token)
        found == token.id \in UserIds
        sent == IF guards # PassOn THEN guards
                ELSE IF found THEN Respond(200, "ok")
                ELSE Respond(500, "INTERNAL_ERROR")
    IN  /\ MayStart(p)
        /\ req' = [req EXCEPT ![p] = [op |-> "balance", userId |-> token.id,
                                      transactionId |-> NoKey, amount |-> 0]]
        /\ http' = Sent(p, apiKey, token, sent)
        /\ Finish(p, IF guards # PassOn THEN NoResult
                     ELSE IF found THEN Returned("balance", balance[token.id])
                     ELSE Threw("User not found"))
        /\ UNCHANGED <<balance, status, ledger, rowLock, role, last_login>>

\* a client asks for page 1
getTransactionsFirstPage(p, apiKey, token, q) ==
    /\ MayStart(p)
    /\ ServeTransactions(p, apiKey, token, q, 1)

\* the client asks for the page after the one it has read
getTransactionsNextPage(p) ==
    /\ pc[p] = "paging"
    /\ ServeTransactions(p, http[p].apiKey, http[p].token, http[p].query, http[p].page + 1)

\* the calls of a behaviour draw their arguments from U, K, A (creditUser and
\* debitUser amounts), AW (the amounts of processWager and of processPayout)
\* and S
NextOn(U, K, A, AW, S) ==
    \/ \E p \in Procs, op \in Ops, u \in U, k \in K, a \in A :
           creditDebit(p, op, u, k, a) /\ UNCHANGED http
    \/ \E p \in Procs, op \in DOMAIN AW, u \in U : \E a \in AW[op] :
           processWagerPayout(p, op, u, a)
    \/ \E p \in Procs : LockAndInsert(p)
    \/ \E p \in Procs : InsertResume(p)
    \/ \E p \in Procs : Commit(p)
    \/ \E p \in Procs, u \in U, s \in S : updateUserStatus(p, u, s)

\* creditUser and debitUser of 0.01 under two client keys; wagers of 0.005 and
\* 0.01, payouts of 0.005; an administrator who suspends accounts
Next == NextOn(UserIds, ClientKeys, {Cent},
               [wager |-> Amounts, payout |-> {Cent \div 2}], {"suspended"})

Spec == Init /\ [][Next]_vars

\* behaviours of creditUser and debitUser calls of 0.01 alone, with three keys
NextCreditDebit ==
    \/ \E p \in Procs, op \in Ops, u \in UserIds, k \in MoreKeys :
           creditDebit(p, op, u, k, Cent) /\ UNCHANGED http
    \/ \E p \in Procs : LockAndInsert(p)
    \/ \E p \in Procs : InsertResume(p)
    \/ \E p \in Procs : Commit(p)

SpecCreditDebit == Init /\ [][NextCreditDebit]_vars

OneKey == {[src |-> "client", n |-> 1]}

\* behaviours of every kind of operation: creditUser, debitUser and
\* processWager of 0.01, one client key, suspensions, logins, reads
NextOperations ==
    \/ NextOn(UserIds, OneKey, {Cent}, [wager |-> {Cent}], {"suspended"})
    \/ \E p \in Procs, u \in UserIds, valid \in BOOLEAN : authenticateUser(p, u, valid)
    \/ \E p \in Procs : UpdateLastLogin(p)
    \/ \E p \in Procs, u \in UserIds : getUserBalance(p, u)
    \/ \E p \in Procs, k \in OneKey : getTransaction(p, k)

SpecOperations == Init /\ [][NextOperations]_vars

\* amounts that creditUser and debitUser are sent: -0.01, 0, one grid unit
\* (1e-7), 0.005 and 0.01
AmountsToValidate == {-Cent, 0, 1, Cent \div 2, Cent}

\* behaviours of creditUser and debitUser calls with these amounts for the
\* seeded account, which an administrator may suspend.  One account: no INSERT
\* ever waits for a key
NextAmounts ==
    \/ \E p \in Procs, op \in Ops, k \in ClientKeys, a \in AmountsToValidate :
           creditDebit(p, op, "u2", k, a) /\ UNCHANGED http
    \/ \E p \in Procs : LockAndInsert(p)
    \/ \E p \in Procs : Commit(p)
    \/ \E p \in Procs : updateUserStatus(p, "u2", "suspended")

SpecAmounts == Init /\ [][NextAmounts]_vars

\* behaviours of the four operations of 0.01 on the two accounts and on an id
\* that no account has, with an administrator who suspends and deactivates
NextAccounts ==
    NextOn(AllIds, OneKey, {Cent}, [wager |-> {Cent}, payout |-> {Cent}],
           {"suspended", "inactive"})

SpecAccounts == Init /\ [][NextAccounts]_vars

\* behaviours in which the seed script funds the seeded account while
\* creditUser, debitUser and processWager calls of 0.01 are made
NextSeed ==
    \/ \E p \in Procs : seedInitialCredit(p)
    \/ NextOn(UserIds, OneKey, {Cent}, [wager |-> {Cent}], {"suspended"})

SpecSeed == Init /\ [][NextSeed]_vars

\* what the credit and debit requests of a behaviour carry: no API key, no
\* token, a token that does not verify, a player's token, or the admin's token
\* with a body for the registered account or for an id that no account has,
\* with an amount of 0 or 0.005
RejectedCredentials ==
    {[apiKey |-> FALSE, token |-> TokenOf("u2", "admin")],
     [apiKey |-> TRUE, token |-> NoToken],
     [apiKey |-> TRUE, token |-> BadToken],
     [apiKey |-> TRUE, token |-> TokenOf("u1", "player")]}

ResponsePending == \E p \in Procs : pc[p] = "done" /\ http[p].code = "pending"

\* behaviours of such requests, with an administrator who suspends the
\* account.  sendResponse reads and writes what no other step touches, so it
\* commutes with every step and is taken as soon as a call has ended.  One
\* account: no INSERT ever waits for a key
NextHttp ==
    \/ \E p \in Procs : sendResponse(p)
    \/ \E p \in Procs, op \in Ops, c \in RejectedCredentials, k \in OneKey :
           ~ResponsePending /\ postCreditDebit(p, op, c.apiKey, c.token, "u1", k, Cent)
    \/ \E p \in Procs, op \in Ops, u \in {"u1", MissingId}, k \in OneKey,
             a \in {0, Cent \div 2} :
           /\ ~ResponsePending
           /\ postCreditDebit(p, op, TRUE, TokenOf("u2", "admin"), u, k, a)
    \/ \E p \in Procs : ~ResponsePending /\ LockAndInsert(p)
    \/ \E p \in Procs : ~ResponsePending /\ Commit(p)
    \/ \E p \in Procs : ~ResponsePending /\ updateUserStatus(p, "u1", "suspended")

SpecHttp == Init /\ [][NextHttp]_vars

\* creditUser and debitUser calls with one key and the amounts 0, 0.005 and
\* 0.01 for the seeded account, which an administrator may suspend, and for an
\* id that no account has
NextOrder ==
    \/ \E p \in Procs, op \in Ops, u \in {"u2", MissingId}, k \in OneKey,
          a \in {0, Cent \div 2, Cent} :
           creditDebit(p, op, u, k, a) /\ UNCHANGED http
    \/ \E p \in Procs : LockAndInsert(p)
    \/ \E p \in Procs : Commit(p)
    \/ \E p \in Procs : updateUserStatus(p, "u2", "suspended")

SpecOrder == Init /\ [][NextOrder]_vars

\* createTransaction called by itself with one key for the registered account
\* and for an id that no account has, with amounts 0 and 0.01, next to
\* creditUser and debitUser calls of 0.01 for the registered account
NextRepository ==
    \/ \E p \in Procs, type \in {"debit", "bonus"}, u \in {"u1", MissingId}, k \in OneKey,
          a \in {0, Cent} :
           createTransaction(p, type, u, k, a)
    \/ \E p \in Procs, op \in Ops, k \in ClientKeys :
           creditDebit(p, op, "u1", k, Cent) /\ UNCHANGED http
    \/ \E p \in Procs : LockAndInsert(p)
    \/ \E p \in Procs : Commit(p)

SpecRepository == Init /\ [][NextRepository]_vars

\* credits of 0.01 with one client key on the two accounts, wagers of 0.01 on
\* the seeded account, and its suspension.  PostgreSQL runs every statement that is not waiting and wakes
\* a statement when the lock or the key it waits for is released: each step of
\* the engine that stays possible is eventually taken
NextFair ==
    \/ \E p \in Procs, u \in UserIds, k \in OneKey :
           creditDebit(p, "credit", u, k, Cent) /\ UNCHANGED http
    \/ \E p \in Procs : processWagerPayout(p, "wager", "u2", Cent)
    \/ \E p \in Procs : LockAndInsert(p)
    \/ \E p \in Procs : InsertResume(p)
    \/ \E p \in Procs : Commit(p)
    \/ \E p \in Procs : updateUserStatus(p, "u2", "suspended")

SpecFair ==
    /\ Init
    /\ [][NextFair]_vars
    /\ \A p \in Procs : /\ WF_vars(LockAndInsert(p))
                        /\ WF_vars(InsertResume(p))
                        /\ WF_vars(Commit(p))

\* credits, payouts and debits of 0.01, of 0.02 and of the largest value, one
\* after the other, for the seeded account
NextNumeric ==
    \E p \in Procs, type \in {"credit", "payout", "debit"}, k \in ClientKeys,
       a \in {Numeric(0, 1), Numeric(0, 2), NumericMax} :
        KeysInOrder(k) /\ createTransactionAlone(p, type, "u2", k, a)

SpecNumeric == InitNumeric /\ [][NextNumeric]_vars

\* Database.transaction calls, whose connect, statements and callback each
\* resolve or throw
NextTransaction ==
    \/ \E p \in Procs, ok \in BOOLEAN : transactionConnect(p, ok)
    \/ \E p \in Procs, ok \in BOOLEAN : transactionBegin(p, ok)
    \/ \E p \in Procs, ok \in BOOLEAN : transactionCallback(p, ok)
    \/ \E p \in Procs, ok \in BOOLEAN : transactionCommit(p, ok)
    \/ \E p \in Procs, ok \in BOOLEAN : transactionRollback(p, ok)
    \/ \E p \in Procs : transactionFinally(p)

SpecTransaction == Init /\ [][NextTransaction]_vars

\* SIGTERM and SIGINT signals sent to the server process, whose pool.end()
\* resolves or throws
NextShutdown ==
    \/ \E p \in Procs, signal \in {"SIGTERM", "SIGINT"} : gracefulShutdown(p, signal)
    \/ serverClosed
    \/ \E p \in Procs, ok \in BOOLEAN : databaseClosed(p, ok)

SpecShutdown == Init /\ [][NextShutdown]_vars

\* one run of the setup script over a script of at most MaxLines lines
NextSetup ==
    \/ \E p \in Procs : MayStart(p) /\ SetupNotRun
                           /\ \E lines \in Scripts : setupDatabase(p, lines)
    \/ \E p \in Procs : setupDatabaseLine(p)
    \/ \E p \in Procs : setupDatabaseRemainder(p)

SpecSetup == Init /\ [][NextSetup]_vars

\* payouts of 0.01 and 0.02 and a wager, and listings read page by page by
\* the administrator u2 and by the player u1
ListQueries ==
    {[limit |-> 1, sortBy |-> "amount", sortOrder |-> "desc", userId |-> u] :
        u \in {"", "u1"}}
    \cup {[limit |-> 2, sortBy |-> "processedAt", sortOrder |-> "desc", userId |-> ""],
          [limit |-> 0, sortBy |-> "amount", sortOrder |-> "desc", userId |-> ""],
          [limit |-> 2, sortBy |-> "type", sortOrder |-> "asc", userId |-> ""]}

ListWrites ==
    {[op |-> "payout", userId |-> "u1", amount |-> Cent],
     [op |-> "payout", userId |-> "u2", amount |-> Cent],
     [op |-> "payout", userId |-> "u2", amount |-> 2 * Cent],
     [op |-> "wager", userId |-> "u2", amount |-> Cent]}

NextList ==
    \/ \E p \in Procs, w \in ListWrites :
           processWagerPayout(p, w.op, w.userId, w.amount)
    \/ \E p \in Procs : LockAndInsert(p)
    \/ \E p \in Procs : Commit(p)
    \/ \E p \in Procs, t \in {TokenOf("u2", "admin"), TokenOf("u1", "player"), NoToken},
          q \in ListQueries :
           getTransactionsFirstPage(p, TRUE, t, q)
    \/ \E p \in Procs : getTransactionsNextPage(p)

SpecList == Init /\ [][NextList]_vars

\* the tokens that the two users were issued while their accounts were active
IssuedTokens == {TokenOf(u, IF u = "u2" THEN "admin" ELSE "player") : u \in UserIds}

\* requests that carry the API key and a token: for the own balance, for the
\* own transactions, and an administrator's credits and debits of 0.01 for the
\* player; accounts are suspended and set inactive meanwhile
NextTokens ==
    \/ \E p \in Procs : sendResponse(p)
    \/ \E p \in Procs, t \in IssuedTokens \cup {BadToken} :
           ~ResponsePending /\ getMyBalance(p, TRUE, t)
    \/ \E p \in Procs, t \in IssuedTokens :
           /\ ~ResponsePending
           /\ getTransactionsFirstPage(p, TRUE, t, [limit |-> 1, sortBy |-> "amount",
                                                    sortOrder |-> "desc", userId |-> ""])
    \/ \E p \in Procs : ~ResponsePending /\ getTransactionsNextPage(p)
    \/ \E p \in Procs, op \in Ops, t \in IssuedTokens, k \in ClientKeys :
           ~ResponsePending /\ postCreditDebit(p, op, TRUE, t, "u1", k, Cent)
    \/ \E p \in Procs : ~ResponsePending /\ LockAndInsert(p)
    \/ \E p \in Procs : ~ResponsePending /\ Commit(p)
    \/ \E p \in Procs, u \in UserIds, st \in {"suspended", "inactive"} :
           ~ResponsePending /\ updateUserStatus(p, u, st)

SpecTokens == Init /\ [][NextTokens]_vars

\* the four operations with one client key, credits and debits of 0.01, wagers
\* of 0.01 and payouts of 0.02, suspensions, and statistics of one account, of
\* all accounts ("") and of an id that no account has
NextStats ==
    \/ NextOn(UserIds, OneKey, {Cent}, [wager |-> {Cent}, payout |-> {2 * Cent}],
              {"suspended"})
    \/ \E p \in Procs, u \in AllIds \cup {""} : getTransactionStats(p, u)

SpecStats == Init /\ [][NextStats]_vars

\* ------------------------------------------------------------- claims
Done(p) == pc[p] = "done"
Succeeded(p) == Done(p) /\ result[p].kind \in {"created", "replayed"}
Failed(p, msg) == Done(p) /\ result[p].kind = "error" /\ result[p].error = msg
EntriesOf(u) == {i \in 1 .. Len(ledger) : ledger[i].userId = u}
Last(S) == CHOOSE i \in S : \A j \in S : j <= i

\* C1: in every reachable state every account's stored balance is >= 0
C1_BalanceNonNegative == \A u \in UserIds : balance[u] >= 0

\* a debit was refused for insufficient funds and a debit-class entry has
\* brought an account to exactly 0
C1_Witness ==
    /\ \E p \in Procs : Failed(p, "Insufficient funds")
    /\ \E e \in Rows : e.type \in {"debit", "wager"} /\ e.balanceAfter = 0
                       /\ balance[e.userId] = 0

\* C2: every committed ledger entry has amount > 0, balance_before >= 0,
\* balance_after >= 0, and balance_after = balance_before + amount for the
\* credit class, balance_before - amount for the debit class
C2_LedgerConsistent ==
    \A e \in Rows :
        /\ e.amount > 0 /\ e.balanceBefore >= 0 /\ e.balanceAfter >= 0
        /\ e.type \in {"credit", "payout", "bonus", "refund", "debit", "wager"}
        /\ e.type \in {"credit", "payout", "bonus", "refund"}
               => e.balanceAfter = e.balanceBefore + e.amount
        /\ e.type \in {"debit", "wager"} => e.balanceAfter = e.balanceBefore - e.amount

\* entries of both classes are committed, one of them for a request amount
\* that the database had to round, and a row was refused by a CHECK constraint
C2_Witness ==
    /\ \E e \in Rows : e.type = "debit"
    /\ \E p \in Procs : /\ result[p].kind = "created"
                        /\ req[p].amount = Cent \div 2
                        /\ result[p].entry.amount = 1
    /\ \E p \in Procs : Failed(p, DbCheck.message)

\* C10: an account that has a ledger entry has the balance_after of its most
\* recently committed entry as its stored balance
C10_BalanceIsLastEntry ==
    \A u \in UserIds :
        EntriesOf(u) # {} => balance[u] = ledger[Last(EntriesOf(u))].balanceAfter

\* an account with two committed entries, the second of which moved the balance
C10_Witness ==
    \E u \in UserIds :
        /\ Cardinality(EntriesOf(u)) >= 2
        /\ \E i \in EntriesOf(u) : ledger[i].balanceAfter # balance[u]

Started == {p \in Procs : pc[p] # "idle"}
InitialBalance(u) == IF u = "u2" THEN SeedBalance ELSE 0
SameKey(p, q) == req[p].transactionId = req[q].transactionId

\* C3: N debit calls of amount a = 0.01 with pairwise distinct keys, the only
\* calls issued, against an account with balance B >= N * a: once all have
\* ended, all have succeeded, the balance is B - N * a and the ledger has
\* exactly N entries
C3_ConcurrentDebits ==
    \A u \in UserIds :
        (/\ \A p \in Started : /\ Done(p)
                               /\ req[p].op = "debit"
                               /\ req[p].userId = u
                               /\ req[p].amount = Cent
         /\ \A p, q \in Started : SameKey(p, q) => p = q
         /\ Cardinality(Started) <= InitialBalance(u))
        => /\ \A p \in Started : result[p].kind = "created"
           /\ balance[u] = InitialBalance(u) - Cardinality(Started)
           /\ Len(ledger) = Cardinality(Started)

\* three debits with three keys have all ended on the seeded account
C3_Witness ==
    /\ Cardinality(Started) = 3
    /\ \A p \in Started : Done(p) /\ req[p].op = "debit" /\ req[p].userId = "u2"
    /\ \A p, q \in Started : SameKey(p, q) => p = q

Starts(q) == pc[q] = "idle" /\ pc'[q] # "idle"
Ends(q) == pc[q] # "done" /\ pc'[q] = "done"
EntriesWithKey(k) == {i \in 1 .. Len(ledger) : ledger[i].transactionId = k}

\* C4: a creditUser / debitUser call issued after a call with the same key,
\* user and operation has returned its entry returns that same entry at once,
\* whatever happened to the balance in between, and writes nothing: the ledger
\* keeps exactly one entry with the key and no balance changes
C4_ReplayReturnsFirstEntry ==
    [][\A p, q \in Procs :
          (/\ Succeeded(p)
           /\ req[p].op \in {"credit", "debit"}
           /\ Starts(q)
           /\ req'[q].op = req[p].op
           /\ req'[q].userId = req[p].userId
           /\ req'[q].transactionId = req[p].transactionId)
          => /\ pc'[q] = "done"
             /\ result'[q].kind = "replayed"
             /\ result'[q].entry = result[p].entry
             /\ balance' = balance
             /\ ledger' = ledger
             /\ Cardinality(EntriesWithKey(req[p].transactionId)) = 1]_vars

\* a call created an entry, another operation then moved the account's
\* balance, and a second call with the same key got the first entry back
C4_Witness ==
    \E p, q \in Procs :
        /\ p # q
        /\ result[p].kind = "created"
        /\ result[q].kind = "replayed"
        /\ result[q].entry = result[p].entry
        /\ req[q].op = req[p].op /\ req[q].userId = req[p].userId /\ SameKey(p, q)
        /\ balance[req[p].userId] # result[p].entry.balanceAfter

\* C5: at most one ledger entry ever exists per idempotency key, and at most
\* one of the calls that carry a key commits (changes a balance), whatever the
\* accounts and the interleaving of the calls
C5_OneEntryPerKey ==
    /\ \A i, j \in 1 .. Len(ledger) :
           ledger[i].transactionId = ledger[j].transactionId => i = j
    /\ \A p, q \in Procs :
           result[p].kind = "created" /\ result[q].kind = "created" /\ SameKey(p, q)
               => p = q

\* two calls with one key on two accounts raced: one committed, the other was
\* stopped by the unique index
C5_Witness ==
    \E p, q \in Procs :
        /\ SameKey(p, q)
        /\ req[p].userId # req[q].userId
        /\ result[p].kind = "created"
        /\ Failed(q, "Transaction ID already exists")

\* C6: two creditUser (or two debitUser) calls for the same user with the same
\* transactionId and amount both receive the same ledger entry, also when the
\* second starts before the first has committed
C6_DuplicatesGetSameEntry ==
    \A p, q \in Procs :
        (/\ p # q
         /\ Done(p) /\ Done(q)
         /\ req[p].op \in {"credit", "debit"}
         /\ req[q] = req[p]
         /\ result[p].kind = "created")
        => Succeeded(q) /\ result[q].entry = result[p].entry

AtEngine(q) == pc[q] \in {"engine", "waiting"}

\* C7: a creditUser / debitUser call that passed the pre-check and is at the
\* engine when another call has committed its key (the loser of the race)
\* fails with 'Transaction ID already exists' and changes neither a balance
\* nor the ledger
C7_LoserGetsDuplicateKey ==
    [][\A q \in Procs :
          (/\ AtEngine(q)
           /\ req[q].op \in {"credit", "debit"}
           /\ EntriesWithKey(req[q].transactionId) # {}
           /\ Ends(q))
          => /\ result'[q] = Threw("Transaction ID already exists")
             /\ balance' = balance
             /\ ledger' = ledger]_vars

\* C8: the step in which a debit or wager fails with 'Insufficient funds'
\* writes nothing: balances and ledger are unchanged, no ledger entry with the
\* request's key exists after it, and the call holds no row lock
C8_InsufficientFundsWritesNothing ==
    [][\A p \in Procs :
          (/\ Ends(p)
           /\ req[p].op \in {"debit", "wager"}
           /\ result'[p] = Threw("Insufficient funds"))
          => /\ balance' = balance
             /\ ledger' = ledger
             /\ \A i \in 1 .. Len(ledger') :
                    ledger'[i].transactionId # req[p].transactionId
             /\ \A u \in UserIds : rowLock'[u] # p]_vars

\* C9: a debit-class apply with a valid amount and a key that no committed or
\* pending row carries inserts its row if and only if the amount is at most the
\* balance read under the row lock, and otherwise fails with 'Insufficient
\* funds'; the commit of the row leaves the balance at balance - amount, which
\* is 0 for a debit of the whole balance
C9_DebitSucceedsIffCovered ==
    [][\A p \in Procs :
          LET u == req[p].userId
              a == req[p].amount
          IN  /\ (/\ pc[p] = "engine" /\ pc'[p] # "engine"
                  /\ req[p].op \in {"debit", "wager"}
                  /\ validateAmount(a) = "ok"
                  /\ EntriesWithKey(req[p].transactionId) = {}
                  /\ ~InsertWaits(p))
                 => IF a <= balance[u] * Cent
                    THEN /\ pc'[p] = "inserted"
                         /\ txn'[p].new_balance * Cent = balance[u] * Cent - a
                    ELSE result'[p] = Threw("Insufficient funds")
              /\ (pc[p] = "inserted" /\ pc'[p] # "inserted"
                  /\ req[p].op \in {"debit", "wager"}
                  /\ validateAmount(a) = "ok")
                 => /\ result'[p].kind = "created"
                    /\ balance'[u] * Cent = balance[u] * Cent - a
                    /\ (a = balance[u] * Cent => balance'[u] = 0)]_vars

\* a debit of the whole balance was committed and left 0; a debit of 0.01
\* against a balance of 0 was refused
C9_Witness ==
    \E p, q \in Procs :
        /\ result[p].kind = "created"
        /\ req[p].op = "debit"
        /\ result[p].entry.balanceBefore * Cent = req[p].amount
        /\ result[p].entry.balanceAfter = 0
        /\ req[q].op \in {"debit", "wager"}
        /\ req[q].userId = req[p].userId
        /\ req[q].amount = Cent
        /\ Failed(q, "Insufficient funds")
        /\ balance[req[p].userId] = 0

EntriesBefore(u, i) == {j \in EntriesOf(u) : j < i}

\* C11: for a fixed account the committed entries form one chain in commit
\* order: each entry's balance_before is the balance_after of the entry
\* committed immediately before it for that account
C11_LedgerChain ==
    \A u \in UserIds : \A i \in EntriesOf(u) :
        EntriesBefore(u, i) # {}
            => ledger[i].balanceBefore = ledger[Last(EntriesBefore(u, i))].balanceAfter

\* two calls committed entries for one account, with an entry of the other
\* account committed between them, and the later one read the balance that
\* the earlier one had written
C11_Witness ==
    \E u \in UserIds : \E i, j \in EntriesOf(u) :
        /\ i + 1 < j
        /\ ledger[i].balanceAfter # ledger[i].balanceBefore
        /\ ledger[j].balanceBefore = ledger[i].balanceAfter
        /\ ledger[j].balanceBefore # InitialBalance(u)

EntryWithKey(k) == ledger[CHOOSE i \in EntriesWithKey(k) : TRUE]
UserConflict == "Transaction ID belongs to a different user"
TypeConflict == "Transaction ID already used for a different operation type"

\* C12: a creditUser / debitUser call whose key has an entry of a different
\* user, or of the same user and a different operation type, fails with the
\* conflict error at once: it never reaches process_transaction, and every
\* balance, the ledger and the row locks are as before
C12_KeyConflictFails ==
    [][\A q \in Procs :
          (/\ Starts(q)
           /\ req'[q].op \in {"credit", "debit"}
           /\ EntriesWithKey(req'[q].transactionId) # {})
          => LET e == EntryWithKey(req'[q].transactionId)
             IN  (e.userId # req'[q].userId \/ e.type # req'[q].op)
                 => /\ pc'[q] = "done"
                    /\ result'[q] = Threw(IF e.userId # req'[q].userId
                                           THEN UserConflict ELSE TypeConflict)
                    /\ balance' = balance
                    /\ ledger' = ledger
                    /\ rowLock' = rowLock]_vars

\* a key has an entry; a call for another user and a call of the other
\* operation type for the same user were both refused with it
C12_Witness ==
    \E p, q, r \in Procs :
        /\ result[p].kind = "created"
        /\ SameKey(p, q) /\ SameKey(p, r)
        /\ req[q].userId # req[p].userId /\ Failed(q, UserConflict)
        /\ req[r].userId = req[p].userId /\ req[r].op # req[p].op
        /\ Failed(r, TypeConflict)
        /\ Len(ledger) = 1

\* C13: a creditUser / debitUser call whose key has an entry of the same user
\* and type returns that entry at once, whatever the account's status and
\* whatever the amount sent: validateUserExists and validateAmount are not
\* consulted, process_transaction is not reached, balance and ledger are as
\* before
C13_ReplaySkipsValidation ==
    [][\A q \in Procs :
          (/\ Starts(q)
           /\ req'[q].op \in {"credit", "debit"}
           /\ EntriesWithKey(req'[q].transactionId) # {})
          => LET e == EntryWithKey(req'[q].transactionId)
             IN  (e.userId = req'[q].userId /\ e.type = req'[q].op)
                 => /\ pc'[q] = "done"
                    /\ result'[q] = Replayed(e)
                    /\ balance' = balance
                    /\ ledger' = ledger
                    /\ rowLock' = rowLock]_vars

\* an entry was replayed to a call that came after the account's suspension
\* and carried an amount that validateAmount refuses
C13_Witness ==
    \E q, r \in Procs :
        /\ r < q
        /\ req[r].op = "status" /\ req[r].userId = req[q].userId
        /\ status[req[q].userId] = "suspended"
        /\ result[q].kind = "replayed"
        /\ validateAmount(req[q].amount) # "ok"
        /\ req[q].amount # result[q].entry.amount * Cent

NothingWritten == balance' = balance /\ ledger' = ledger /\ rowLock' = rowLock

\* C14: with a key that has no entry, a credit, debit, wager or payout for an
\* id that no account has fails with 'User not found', and for an account whose
\* status is suspended or inactive when it is checked fails with 'User account
\* is <status>'; the call ends there, before process_transaction, and nothing
\* is written
C14_AccountChecked ==
    [][\A q \in Procs :
          (/\ Starts(q)
           /\ req'[q].op \in Ops
           /\ EntriesWithKey(req'[q].transactionId) = {})
          => LET u == req'[q].userId
             IN  /\ u \notin UserIds
                     => /\ pc'[q] = "done"
                        /\ result'[q] = Threw("User not found")
                        /\ NothingWritten
                 /\ (u \in UserIds /\ status[u] # "active")
                     => /\ pc'[q] = "done"
                        /\ result'[q] = Threw("User account is " \o status[u])
                        /\ NothingWritten]_vars

\* a call for a missing id and a wager or payout for a deactivated account
\* were both refused
C14_Witness ==
    \E p, q \in Procs :
        /\ req[p].op \in Ops /\ req[p].userId = MissingId
        /\ Failed(p, "User not found")
        /\ req[q].op \in {"wager", "payout"}
        /\ Failed(q, "User account is inactive")
        /\ ledger = <<>>

Commits(p) == pc[p] = "inserted" /\ pc'[p] = "done"

\* C15: no debit-class entry is committed while the account's stored status
\* is suspended or inactive
C15_NoDebitWhileSuspended ==
    [][\A p \in Procs :
          (Commits(p) /\ req[p].op \in {"debit", "wager"})
              => status[req[p].userId] = "active"]_vars

\* the number of fractional digits of the amount a (a > 0), as a number
FractionalDigits(a) ==
    IF TrailingZeros(a) >= GridDigits THEN 0 ELSE GridDigits - TrailingZeros(a)

\* C16: with a key that has no entry and an active account, creditUser and
\* debitUser refuse an amount <= 0 with 'Amount must be positive' and an amount
\* of more than 2 fractional digits with 'Amount must have at most 2 decimal
\* places'; the call ends there, before process_transaction, and nothing is
\* written
C16_AmountValidated ==
    [][\A q \in Procs :
          (/\ Starts(q)
           /\ req'[q].op \in {"credit", "debit"}
           /\ EntriesWithKey(req'[q].transactionId) = {}
           /\ status[req'[q].userId] = "active")
          => LET a == req'[q].amount
             IN  /\ a <= 0
                     => /\ pc'[q] = "done"
                        /\ result'[q] = Threw("Amount must be positive")
                        /\ NothingWritten
                 /\ (a > 0 /\ FractionalDigits(a) > 2)
                     => /\ pc'[q] = "done"
                        /\ result'[q] = Threw("Amount must have at most 2 decimal places")
                        /\ NothingWritten]_vars

\* C17: processWager and processPayout too refuse an amount that is not
\* positive or has more than 2 fractional digits, before process_transaction
C17_WagerPayoutAmountValidated ==
    [][\A q \in Procs :
          (/\ Starts(q)
           /\ req'[q].op \in {"wager", "payout"}
           /\ status[req'[q].userId] = "active"
           /\ (req'[q].amount <= 0 \/ FractionalDigits(req'[q].amount) > 2))
          => /\ pc'[q] = "done"
             /\ result'[q].kind = "error"
             /\ result'[q].error \in {"Amount must be positive",
                                       "Amount must have at most 2 decimal places"}]_vars

\* the calls that keep p from taking its next step: the holder of the row lock
\* that p's SELECT ... FOR UPDATE waits for, the holder of the uncommitted key
\* that p's INSERT waits for
Blockers(p) ==
    {q \in Procs \ {p} :
        \/ pc[p] = "engine" /\ req[p].userId \in UserIds /\ rowLock[req[p].userId] = q
        \/ pc[p] = "waiting" /\ pc[q] = "inserted" /\ SameKey(p, q)}

\* C18: an apply call is kept waiting only by in-flight apply calls for the
\* same account
C18_BlockedBySameAccountOnly ==
    \A p \in Procs : \A q \in Blockers(p) : req[q].userId = req[p].userId

\* C19: the ledger is append-only: every step of every operation (credit,
\* debit, wager, status update, login, read) leaves each committed entry in
\* place with the same field values
C19_LedgerAppendOnly ==
    [][/\ Len(ledger') >= Len(ledger)
       /\ \A i \in 1 .. Len(ledger) : ledger'[i] = ledger[i]]_vars

\* after an entry was committed, a second entry was committed and a status
\* update, a login or a read has ended, and the entry is still the first row
C19_Witness ==
    \E p \in Procs :
        /\ result[p].kind = "created"
        /\ Len(ledger) >= 2
        /\ ledger[1] = result[p].entry
        /\ \E q \in Procs \ {p} : result[q].kind \in {"token", "updated", "balance", "found"}

Steps(p) == pc'[p] # pc[p]
OtherOps == {"status", "login", "balance", "query"}

\* C20: a balance changes only in the commit of a process_transaction call,
\* and only the balance of the account the call is for; every step of
\* updateUserStatus, of a login and of a read leaves the balances and the
\* ledger as they are; no step of an apply call changes a status or a role
C20_BalanceWrittenByEngineOnly ==
    [][/\ balance' # balance => \E p \in Procs : Commits(p) /\ req[p].op \in Ops
       /\ \A p \in Procs :
              Steps(p) =>
                  /\ req'[p].op \in OtherOps => balance' = balance /\ ledger' = ledger
                  /\ req'[p].op \in Ops
                         => /\ status' = status
                            /\ role' = role
                            /\ \A u \in UserIds \ {req'[p].userId} :
                                   balance'[u] = balance[u]
                            /\ Commits(p) => balance'[req[p].userId] = txn[p].new_balance]_vars

\* on one account an entry was committed that moved the balance, the account
\* was suspended and a login has set last_login; the balance is the one the
\* entry left
C20_Witness ==
    \E u \in UserIds :
        /\ EntriesOf(u) # {}
        /\ status[u] = "suspended"
        /\ last_login[u] = "set"
        /\ balance[u] # InitialBalance(u)
        /\ balance[u] = ledger[Last(EntriesOf(u))].balanceAfter

First(S) == CHOOSE i \in S : \A j \in S : i <= j

\* C21: the first ledger entry of every account, whether the account was
\* registered or seeded, has balance_before = 0
C21_FirstEntryStartsAtZero ==
    \A u \in UserIds :
        EntriesOf(u) # {} => ledger[First(EntriesOf(u))].balanceBefore = 0

Responds(p) == http[p].code = "pending" /\ http'[p].code # "pending"
ClientError(st) == st >= 400 /\ st <= 499
ExpectedErrors ==
    {"User not found", "Insufficient funds", "Transaction ID already exists",
     UserConflict, TypeConflict, "User account is suspended", "User account is inactive",
     "Amount must be positive", "Amount must have at most 2 decimal places"}

\* C22: the response to a credit or debit request whose service call threw
\* tells the kinds of error apart: 'User not found' gets 404, 'Insufficient
\* funds' 400, a duplicate key or key conflict 409, an account that is not
\* active and an invalid amount a 4xx status, and 500 is sent only for an
\* error of none of these kinds
C22_ErrorsMappedByKind ==
    [][\A p \in Procs :
          (Responds(p) /\ result[p].kind = "error")
          => LET m == result[p].error
                 st == http'[p].status
             IN  /\ m = "User not found" => st = 404
                 /\ m = "Insufficient funds" => st = 400
                 /\ m \in {"Transaction ID already exists", UserConflict, TypeConflict}
                        => st = 409
                 /\ m \in {"User account is suspended", "User account is inactive"}
                        => ClientError(st)
                 /\ m \in {"Amount must be positive",
                            "Amount must have at most 2 decimal places"}
                        => ClientError(st)
                 /\ st = 500 => m \notin ExpectedErrors]_vars

Authorized(h) == h.apiKey /\ h.token.kind = "valid" /\ h.token.role = "admin"

\* C24: a credit or debit request reaches the service only when it carries the
\* API key and a verified token whose role is admin; a request without a token
\* is answered with 401 and one with a token of another role with 403, and a
\* refused request changes no balance, no ledger entry and takes no lock
C24_OnlyAdminReachesService ==
    [][\A p \in Procs :
          (Starts(p) /\ req'[p].op \in Ops)
          => LET h == http'[p]
             IN  /\ h.code = "pending" => Authorized(h)
                 /\ pc'[p] # "done" => Authorized(h)
                 /\ ~Authorized(h)
                        => /\ pc'[p] = "done"
                           /\ result'[p] = NoResult
                           /\ NothingWritten
                 /\ h.token.kind = "none" => h.status = 401
                 /\ (h.apiKey /\ h.token.kind = "valid" /\ h.token.role # "admin")
                        => h.status = 403]_vars

\* one request without a token was answered with 401, one with a player's
\* token with 403, and an admin's request has written an entry
C24_Witness ==
    /\ \E p \in Procs : http[p].apiKey /\ http[p].token.kind = "none" /\ http[p].status = 401
    /\ \E p \in Procs : http[p].token.role = "player" /\ http[p].status = 403
    /\ \E p \in Procs : Authorized(http[p]) /\ http[p].status = 201 /\ Len(ledger) = 1

\* C23: a GET /api/wallet/transactions request of an administrator is answered
\* with the rows of all users that the query's filters select: the total
\* counts them and the page holds only such rows, whoever the administrator is
C23_AdminListsAllUsers ==
    [][\A p \in Procs :
          (Starts(p) /\ req'[p].op = "list" /\ http'[p].code = "ok"
             /\ http'[p].token.role = "admin")
          => /\ http'[p].total = Cardinality(Selected(http'[p].query))
             /\ \A i \in DOMAIN http'[p].data : http'[p].data[i] \in Selected(http'[p].query)
             /\ Len(http'[p].data) = IF http'[p].total < http'[p].query.limit
                                     THEN http'[p].total ELSE http'[p].query.limit]_vars

SweepDone(p) == pc[p] = "done" /\ req[p].op = "list" /\ http[p].code = "ok"
TiedRows(p, i, j) ==
    SortKey(ledger[http[p].data[i]], http[p].query.sortBy)
        = SortKey(ledger[http[p].data[j]], http[p].query.sortBy)

\* C25: a client that has read pages 1 .. pages at one limit, every page
\* reporting the same total (no row was written in between), has received
\* every selected row exactly once, and rows with equal sort keys in the order
\* of their ids
C25_PagesCoverEachEntryOnce ==
    \A p \in Procs :
        (SweepDone(p) /\ http[p].total = http[p].firstTotal)
        => LET data == http[p].data
           IN  /\ Len(data) = http[p].total
               /\ \A i, j \in DOMAIN data : i # j => data[i] # data[j]
               /\ \/ \A i, j \in DOMAIN data :
                         (i < j /\ TiedRows(p, i, j)) => data[i] < data[j]
                  \/ \A i, j \in DOMAIN data :
                         (i < j /\ TiedRows(p, i, j)) => data[i] > data[j]

RowsInScope(u) == {i \in 1 .. Len(ledger) : u = "" \/ ledger[i].userId = u}

RECURSIVE Total(_)
Total(S) ==
    IF S = {} THEN 0
    ELSE LET i == CHOOSE x \in S : TRUE IN ledger[i].amount + Total(S \ {i})

OfTypes(S, types) == {i \in S : ledger[i].type \in types}

\* C26: getTransactionStats for one user or for all returns the number of
\* entries in scope, the sum of the amounts of the credit, payout, bonus and
\* refund entries, the sum of those of the debit and wager entries, and the
\* sums of the wager and of the payout entries; all five are 0 when the scope
\* has no entry
C26_StatsAreSums ==
    [][\A p \in Procs :
          (Starts(p) /\ req'[p].op = "stats" /\ result'[p].kind = "stats")
          => LET st == result'[p].stats
                 S == RowsInScope(req'[p].userId)
             IN  /\ st.totalTransactions = Cardinality(S)
                 /\ st.totalCredits = Total(OfTypes(S, {"credit", "payout", "bonus", "refund"}))
                 /\ st.totalDebits = Total(OfTypes(S, {"debit", "wager"}))
                 /\ st.totalWagers = Total(OfTypes(S, {"wager"}))
                 /\ st.totalPayouts = Total(OfTypes(S, {"payout"}))
                 /\ S = {} => st = NoStats]_vars

\* statistics of all accounts were returned that count two entries, a payout
\* of one account and a debit-class entry of the other
C26_Witness ==
    \E p \in Procs :
        /\ result[p].kind = "stats" /\ req[p].userId = ""
        /\ result[p].stats.totalTransactions = 2
        /\ result[p].stats.totalPayouts = 2
        /\ result[p].stats.totalCredits = 2
        /\ result[p].stats.totalDebits = 1
        /\ \E i, j \in 1 .. Len(ledger) : ledger[i].userId # ledger[j].userId

Registered == {u \in UserIds : InitialBalance(u) = 0}

\* C28: in every reachable state the stored balance of an account created by
\* registration is the sum of the amounts of its credit-class entries minus
\* the sum of the amounts of its debit-class entries, which is totalCredits -
\* totalDebits of its statistics
C28_BalanceIsCreditsMinusDebits ==
    \A u \in Registered :
        /\ balance[u] = Total(OfTypes(EntriesOf(u), {"credit", "payout", "bonus", "refund"}))
                        - Total(OfTypes(EntriesOf(u), {"debit", "wager"}))
        /\ balance[u] = repositoryGetTransactionStats(u).totalCredits
                        - repositoryGetTransactionStats(u).totalDebits

\* a registered account has a credit-class and a debit-class entry, and a call
\* for it has failed
C28_Witness ==
    \E u \in Registered :
        /\ OfTypes(EntriesOf(u), {"credit", "payout"}) # {}
        /\ OfTypes(EntriesOf(u), {"debit", "wager"}) # {}
        /\ \E p \in Procs : req[p].userId = u /\ Done(p) /\ result[p].kind = "error"

GeneratesKey(p) == req[p].op \in {"wager", "payout"}
SameCall(p, q) ==
    /\ req[p].op = req[q].op
    /\ req[p].userId = req[q].userId
    /\ req[p].amount = req[q].amount

\* C27: the key of a processWager / processPayout call differs from every key
\* in the ledger and from the key of every other call; a call that succeeds has
\* appended exactly one entry, of its type and for its user, and two calls with
\* the same arguments that succeed have two entries
C27_OwnKeyPerCall ==
    [][\A p \in Procs :
          /\ (Starts(p) /\ req'[p].op \in {"wager", "payout"})
             => /\ EntriesWithKey(req'[p].transactionId) = {}
                /\ \A q \in Procs \ {p} : req[q].transactionId # req'[p].transactionId
          /\ (Ends(p) /\ GeneratesKey(p) /\ result'[p].kind # "error")
             => /\ result'[p].kind = "created"
                /\ ledger' = Append(ledger, result'[p].entry)
                /\ result'[p].entry.type = req[p].op
                /\ result'[p].entry.userId = req[p].userId
                /\ \A q \in Procs \ {p} :
                       (Succeeded(q) /\ SameCall(p, q))
                       => result[q].entry.id # result'[p].entry.id]_vars

\* two wagers of 0.01 for the seeded account have both succeeded: two entries,
\* and the balance is 0.02 lower
C27_Witness ==
    \E p, q \in Procs :
        /\ p # q
        /\ GeneratesKey(p) /\ SameCall(p, q) /\ req[p].userId = "u2"
        /\ req[p].op = "wager" /\ req[p].amount = Cent
        /\ Succeeded(p) /\ Succeeded(q)
        /\ result[p].entry.id # result[q].entry.id
        /\ Len(ledger) = 2
        /\ balance["u2"] = SeedBalance - 2

AccountErrors == {"User not found", "User account is suspended", "User account is inactive"}
AmountErrors == {"Amount must be positive", "Amount must have at most 2 decimal places"}
AccountUsable(u) == u \in UserIds /\ status[u] = "active"
AmountUsable(a) == a > 0 /\ a % Cent = 0

\* C29: a creditUser / debitUser call whose key has no entry fails with the
\* account error when the id has no account or the account is not active,
\* whatever the amount; fails with the amount error when the account is
\* usable and the amount is not; and goes on to the engine only when the key
\* is unseen, the account usable and the amount valid.  A call whose key has
\* an entry ends at the lookup
C29_ChecksInOrder ==
    [][\A p \in Procs :
          (Starts(p) /\ req'[p].op \in {"credit", "debit"})
          => LET u == req'[p].userId
                 a == req'[p].amount
                 unseen == EntriesWithKey(req'[p].transactionId) = {}
             IN  /\ (unseen /\ ~AccountUsable(u))
                        => /\ result'[p].kind = "error"
                           /\ result'[p].error \in AccountErrors
                 /\ (unseen /\ AccountUsable(u) /\ ~AmountUsable(a))
                        => /\ result'[p].kind = "error"
                           /\ result'[p].error \in AmountErrors
                 /\ pc'[p] = "engine"
                        <=> (unseen /\ AccountUsable(u) /\ AmountUsable(a))
                 /\ ~unseen
                        => /\ pc'[p] = "done"
                           /\ result'[p].kind = "error"
                                  => result'[p].error \in {UserConflict, TypeConflict}]_vars

\* a call with an invalid amount for an id without account has failed with
\* 'User not found', the account was suspended and a call for it with an
\* invalid amount and an unseen key has failed with the account error
C29_Witness ==
    /\ \E p \in Procs :
           /\ req[p].userId = MissingId /\ ~AmountUsable(req[p].amount)
           /\ Failed(p, "User not found")
    /\ \E p \in Procs :
           /\ req[p].userId = "u2" /\ ~AmountUsable(req[p].amount)
           /\ Failed(p, "User account is suspended")
           /\ EntriesWithKey(req[p].transactionId) = {}

EngineEnds(p) == pc[p] \in {"engine", "waiting", "inserted"} /\ pc'[p] = "done"
KeyCommitted(k) == \E i \in 1 .. Len(ledger) : ledger[i].transactionId = k
Overdraws(p) ==
    /\ req[p].op \in {"debit", "wager"}
    /\ balance[req[p].userId] * Cent < req[p].amount

\* C30: a call that has reached the engine ends with an entry appended and
\* returned, or with an error and nothing written, and the error is: 'User not
\* found' when the id has no account; else 'Insufficient funds' when the
\* amount of a debit-class operation exceeds the balance; else 'Transaction ID
\* already exists' when a valid row is refused for its key (SQLSTATE 23505);
\* and the engine's own message for any other failure
C30_EngineErrorsTranslated ==
    [][\A p \in Procs :
          EngineEnds(p)
          => \/ /\ result'[p].kind = "created"
                /\ ledger' = Append(ledger, result'[p].entry)
             \/ /\ result'[p].kind = "error"
                /\ ledger' = ledger /\ balance' = balance
                /\ result'[p].error =
                       IF req[p].userId \notin UserIds THEN "User not found"
                       ELSE IF Overdraws(p) THEN "Insufficient funds"
                       ELSE IF RoundCents(req[p].amount) <= 0 THEN DbCheck.message
                       ELSE "Transaction ID already exists"
                /\ result'[p].error = "Transaction ID already exists"
                       => KeyCommitted(req[p].transactionId)]_vars

\* createTransaction, called by itself, has failed with 'User not found' for
\* an id without account and with 'Transaction ID already exists' for a key
\* that an entry has
C30_Witness ==
    /\ \E p \in Procs : Failed(p, "User not found") /\ req[p].op = "bonus"
    /\ \E p \in Procs :
           /\ Failed(p, "Transaction ID already exists")
           /\ req[p].op = "bonus"
           /\ KeyCommitted(req[p].transactionId)

\* C31: a creditUser / debitUser call whose key has an entry of the same user
\* and type, sent with an amount other than the entry's, returns that entry
\* with its amount and balances as stored, throws no error and changes no
\* balance and no ledger entry
C31_ReplayKeepsOriginalAmount ==
    [][\A p \in Procs :
          (/\ Starts(p)
           /\ req'[p].op \in {"credit", "debit"}
           /\ EntriesWithKey(req'[p].transactionId) # {}
           /\ EntryWithKey(req'[p].transactionId).userId = req'[p].userId
           /\ EntryWithKey(req'[p].transactionId).type = req'[p].op
           /\ EntryWithKey(req'[p].transactionId).amount * Cent # req'[p].amount)
          => /\ pc'[p] = "done"
             /\ result'[p].kind = "replayed"
             /\ result'[p].entry = EntryWithKey(req'[p].transactionId)
             /\ result'[p].entry.amount * Cent # req'[p].amount
             /\ NothingWritten]_vars

\* a credit of 0.01 was committed and a second credit with its key and the
\* amount 0 has returned the entry of 0.01; the balance has moved once
C31_Witness ==
    \E p, q \in Procs :
        /\ p # q
        /\ SameKey(p, q) /\ req[p].op = "credit" /\ req[q].op = "credit"
        /\ req[p].amount = Cent /\ req[q].amount = 0
        /\ result[p].kind = "created" /\ result[q].kind = "replayed"
        /\ result[q].entry = result[p].entry
        /\ result[q].entry.amount = 1
        /\ balance["u2"] = SeedBalance + 1

InEngine(p) == pc[p] \in {"engine", "waiting", "inserted"}
LocksOf(p) == {u \in UserIds : rowLock[u] = p}

\* C32: a call holds the row lock of at most one account, and of no account
\* once it has ended; under fair scheduling every call that has entered the
\* engine eventually commits or fails, and every row lock that is held is
\* eventually released
C32_EveryApplyTerminates ==
    /\ [](\A p \in Procs : /\ Cardinality(LocksOf(p)) <= 1
                           /\ ~InEngine(p) => LocksOf(p) = {})
    /\ \A p \in Procs : InEngine(p) ~> (pc[p] = "done" /\ LocksOf(p) = {})
    /\ \A u \in UserIds : (rowLock[u] # NoProc) ~> (rowLock[u] = NoProc)

\* a call holds the lock of its account while its INSERT waits for the key
\* that a call for the other account has inserted, and a third call waits for
\* the lock
C32_Witness ==
    \E p, q, r \in Procs :
        /\ pc[p] = "waiting" /\ rowLock[req[p].userId] = p
        /\ pc[q] = "inserted" /\ SameKey(p, q) /\ req[q].userId # req[p].userId
        /\ pc[r] = "engine" /\ req[r].userId = req[p].userId

RefusedByAuthentication(h) ==
    h.status \in {401, 403} /\ h.code \in {"UNAUTHORIZED", "FORBIDDEN"}

\* C33: a request whose token was issued to a user whose account is suspended
\* or inactive when the request arrives is answered 401 or 403 by the
\* authentication middleware; no controller runs for it
C33_SuspendedTokenRejected ==
    [][\A p \in Procs :
          (/\ Starts(p)
           /\ http'[p].token.kind = "valid"
           /\ status[http'[p].token.id] \in {"suspended", "inactive"})
          => /\ RefusedByAuthentication(http'[p])
             /\ pc'[p] = "done"
             /\ result'[p] = NoResult]_vars

WithinMax(a) == ~NumericLess(NumericMax, a) /\ a.lo < Limb /\ a.hi >= 0 /\ a.lo >= 0
Headroom(u) == NumericSub(NumericMax, balance[u])

\* C34: a credit-class call whose amount exceeds what the account's balance
\* lacks to the largest DECIMAL(15, 2) value fails and leaves every balance and
\* the ledger as they were; a credit-class call that succeeds adds exactly its
\* amount; no stored balance and no ledger entry ever holds a value above the
\* largest one
C34_OverflowFailsCleanly ==
    [][\A p \in Procs :
          (Starts(p) /\ req'[p].userId \in UserIds /\ CreditClass(req'[p].op))
          => /\ NumericLess(Headroom(req'[p].userId), req'[p].amount)
                    => /\ result'[p].kind = "error"
                       /\ balance' = balance
                       /\ ledger' = ledger
             /\ result'[p].kind = "created"
                    => /\ NumericSub(balance'[req'[p].userId], req'[p].amount)
                              = balance[req'[p].userId]
                       /\ result'[p].entry.balanceAfter = balance'[req'[p].userId]
             /\ \A u \in UserIds : WithinMax(balance'[u])
             /\ \A i \in 1 .. Len(ledger') :
                    WithinMax(ledger'[i].balanceAfter) /\ WithinMax(ledger'[i].amount)]_vars

\* a credit has brought the seeded account to the largest value and a later
\* credit-class call of 0.01 for it has failed with the overflow error
C34_Witness ==
    /\ balance["u2"] = NumericMax
    /\ \E i \in 1 .. Len(ledger) :
           ledger[i].userId = "u2" /\ ledger[i].balanceAfter = NumericMax
    /\ \E p \in Procs :
           /\ req[p].userId = "u2" /\ CreditClass(req[p].op)
           /\ req[p].amount = Numeric(0, 1)
           /\ Failed(p, DbOverflow.message)

InTransaction(p) == req[p].op = "transaction" /\ pc[p] # "done"
Connected(p) == req[p].op = "transaction" /\ result[p].error # "connect failed"
Issued(p, statement) == \E i \in DOMAIN txn[p].issued : txn[p].issued[i] = statement

\* C35: Database.transaction sends BEGIN before it runs the callback, sends
\* COMMIT only after the callback has resolved and ROLLBACK only after BEGIN,
\* the callback or COMMIT has thrown; a call that has ended after such a
\* failure has thrown that failure; and a call that has ended has released its
\* client exactly once, a call under way not yet
C35_TransactionProtocol ==
    \A p \in Procs :
        Connected(p)
        => /\ txn[p].callback # "none" => Issued(p, "BEGIN") /\ txn[p].issued[1] = "BEGIN"
           /\ Issued(p, "COMMIT") => txn[p].callback = "resolved"
           /\ Issued(p, "ROLLBACK") => txn[p].error # ""
           /\ (Done(p) /\ txn[p].error # "")
                  => /\ Issued(p, "ROLLBACK")
                     /\ result[p].kind = "error"
                     /\ result[p].error = txn[p].error
           /\ (Done(p) /\ txn[p].error = "")
                  => /\ result[p].kind = "resolved"
                     /\ txn[p].issued = <<"BEGIN", "COMMIT">>
           /\ txn[p].releases = IF Done(p) THEN 1 ELSE 0

\* what became of the one pool.end() that closes the pool
PoolOutcome(o) == \E q \in Signalled : txn[q].poolEnd = o

\* C36: on SIGTERM or SIGINT the pool is closed only after the HTTP server has
\* finished closing, and the process then exits with code 0 if closing the
\* pool succeeded and with code 1 if it threw, also when a second signal
\* arrives during the shutdown
C36_ShutdownExitCode ==
    \A p \in Signalled :
        /\ txn[p].poolEnd # "none" => txn[p].server = "closed"
        /\ pc[p] = "done" =>
              /\ result[p].value = 0 <=> PoolOutcome("resolved")
              /\ result[p].value = 1 <=> PoolOutcome("threw")

\* the same, of shutdowns that a single signal started
C36_SingleSignal == Cardinality(Signalled) = 1 => C36_ShutdownExitCode

\* the lines of a script that are neither comments nor empty
Kept(lines) == SelectSeq(lines, LAMBDA l : l.kind = "sql")

RECURSIVE Flatten(_)
Flatten(ss) == IF ss = <<>> THEN <<>> ELSE Head(ss) \o Flatten(Tail(ss))

RECURSIVE DollarsIn(_)
DollarsIn(ls) == IF ls = <<>> THEN 0 ELSE Head(ls).dollars + DollarsIn(Tail(ls))

\* a dollar-quoted block is open after these lines: '$$' opens and closes it
BlockOpenAfter(ls) == DollarsIn(ls) % 2 = 1

\* scripts written as init.sql is: a line inside a dollar-quoted block holds
\* at most the '$$' that closes it
BlocksCloseOnOwnLine(ls) ==
    \A j \in 1 .. Len(ls) :
        ls[j].dollars = 2 => ~BlockOpenAfter(SubSeq(ls, 1, j - 1))

\* a statement that a boundary ended: it ends at the first of its lines that
\* ends with ';' outside every dollar-quoted block, so each block it opens it
\* also closes
EndsAtBoundary(st) ==
    /\ st # <<>>
    /\ st[Len(st)].semi
    /\ ~BlockOpenAfter(st)
    /\ \A j \in 1 .. Len(st) - 1 : ~(st[j].semi /\ ~BlockOpenAfter(SubSeq(st, 1, j)))

\* C37: the splitter of setupDatabase never ends a statement inside a
\* dollar-quoted block: a boundary is emitted only at a line that ends with ';'
\* while inDollarQuotes is false, comment and empty lines are dropped, and a
\* non-empty remainder after the last line is emitted as a final statement, so
\* every DO block and CREATE FUNCTION of a script written as init.sql is
\* executed as one statement
C37_SplitterKeepsBlocksWhole ==
    \A p \in Procs :
        req[p].op = "setup" =>
            LET s == txn[p]
                kept == Kept(SubSeq(s.lines, 1, s.i))
                n == Len(s.statements)
                remainder == pc[p] = "done" /\ n > 0 /\ ~EndsAtBoundary(s.statements[n])
            IN  /\ Flatten(s.statements) \o s.currentStatement = kept
                /\ pc[p] = "done" => s.i = Len(s.lines) /\ s.currentStatement = <<>>
                /\ \A k \in 1 .. n : s.statements[k] # <<>>
                /\ BlocksCloseOnOwnLine(kept) =>
                     /\ s.inDollarQuotes = BlockOpenAfter(kept)
                     /\ \A k \in 1 .. n - 1 : EndsAtBoundary(s.statements[k])
                     /\ pc[p] # "done" /\ n > 0 => EndsAtBoundary(s.statements[n])
                     /\ \A j \in 1 .. Len(s.currentStatement) :
                            ~(/\ s.currentStatement[j].semi
                              /\ ~BlockOpenAfter(SubSeq(s.currentStatement, 1, j)))
                     /\ remainder =>
                            \A j \in 1 .. Len(s.statements[n]) :
                                ~(/\ s.statements[n][j].semi
                                  /\ ~BlockOpenAfter(SubSeq(s.statements[n], 1, j)))

\* a function definition of three lines (AS $$ / a body line that ends with
\* ';' / $$ LANGUAGE plpgsql;) with a one-line statement after it has been
\* split into two statements
C37_Witness ==
    \E p \in Procs :
        /\ req[p].op = "setup"
        /\ pc[p] = "done"
        /\ txn[p].lines = << [kind |-> "sql", dollars |-> 1, semi |-> FALSE],
                             [kind |-> "sql", dollars |-> 0, semi |-> TRUE],
                             [kind |-> "sql", dollars |-> 1, semi |-> TRUE],
                             [kind |-> "sql", dollars |-> 0, semi |-> TRUE] >>
        /\ txn[p].statements = << SubSeq(txn[p].lines, 1, 3), SubSeq(txn[p].lines, 4, 4) >>
====
